---- MODULE Spec2Model ----
(***************************************************************************)
(* Fire-risk training code: the split-mask generator, the sequence         *)
(* dataset, the per-pixel accuracy metric and loss, the training driver    *)
(* and the ERA5 preprocessing scripts.                                     *)
(*                                                                         *)
(* Each component is a state machine over its own group of variables and   *)
(* has its own specification (SpecSplit, SpecDataset, SpecMetrics, ...);   *)
(* the variables of the other components are parked at their              *)
(* "off" values, see the Off... predicates.                                *)
(***************************************************************************)
EXTENDS Integers, Sequences, FiniteSets, TLC

\* ------------------------------------------------------------------ bounds
\* zero_ratio / val_ratio are rationals num/RatioDen (Python floats in the code)
RatioDen == 4
\* largest `length` handed to generate_binary_sequence
MaxLen == 5

VARIABLES
  \* ---- utils/data_split_musk.py
  length,        \* argument of generate_binary_sequence
  zero_ratio,    \* argument, numerator over RatioDen
  sequence,      \* the returned list (<<>> while nothing was returned)
  shuffled,      \* TRUE once np.random.shuffle has run
  gbs_status     \* "called" | "returned" | "ValueError"

split_vars == <<length, zero_ratio, sequence, shuffled, gbs_status>>

VARIABLES
  \* ---- utils/dataloader.py: the three files on disk
  ds1_valid_time,   \* land archive: values of its valid_time coordinate
  ds1_data_vars,    \* land archive: names of its data variables, in order
  ds2_data_vars,    \* pressure-level archive: names of its data variables
  ds2_steps,        \* pressure-level archive: number of valid_time steps
  npy_steps,        \* label array: number of slices along axis 0
  \* ---- arguments of FireRiskDataset(...)
  arg_nc1_variables,   \* None or <<list of names>>, see OptionalLists
  arg_nc2_variables,   \* None or <<list of names>>
  arg_sequence_length,
  \* ---- fields of the FireRiskDataset object
  ds_status,        \* "new" | "ready" | "ValueError"
  sequence_length,
  timestamps,
  nc1_variables,
  nc2_variables,
  total_time_steps,
  \* ---- the last __getitem__ call
  get_index,
  get_status,       \* "none" | "returned" | "IndexError" | "ValueError"
  input_data,       \* channels of the returned input, in order
  label,            \* the returned label slice
  \* ---- the last find_samples_by_timestamp call
  find_target,      \* target_timestamp
  find_status,      \* "none" | "returned"
  valid_indices     \* the returned list of sample indices

file_vars == <<ds1_valid_time, ds1_data_vars, ds2_data_vars, ds2_steps, npy_steps>>
arg_vars == <<arg_nc1_variables, arg_nc2_variables, arg_sequence_length>>
field_vars == <<ds_status, sequence_length, timestamps, nc1_variables, nc2_variables,
                total_time_steps>>
get_vars == <<get_index, get_status, input_data, label>>
find_vars == <<find_target, find_status, valid_indices>>
dataset_vars == <<file_vars, arg_vars, field_vars, get_vars, find_vars>>

VARIABLES
  \* ---- utils/metrics.py: one call of pixel_binary_accuracy
  pred,          \* scores per pixel, in thousandths
  label_px,      \* labels per pixel: 0, 1 or the ignore sentinel
  threshold,     \* in thousandths
  acc,           \* the returned value, a fraction [num, den]
  acc_status     \* "called" | "returned"

metrics_vars == <<pred, label_px, threshold, acc, acc_status>>

VARIABLES
  \* ---- train.py: arguments of train_model and the loader it builds
  epochs,
  val_ratio,          \* numerator over RatioDen
  lr_is_float,        \* isinstance(lr_scheduler, float)
  lr_shedular_type,   \* 'batch' | 'epoch'
  n_batches,          \* len(data_loader); batch_size=1, one sample per batch
  \* ---- locals of train_model
  pc,                 \* "start" | "loop" | "train" | "trained" | "eval" |
                      \* "after_loop" | "done" | "aborted"
  error,              \* the exception that ended the run, or "none"
  len_data,
  len_val,
  len_train,
  data_split_musk,
  epoch,
  batch_idx,
  remaining,          \* samples the current pass over the loader has not yielded
  total_train_n,      \* batches added to total_train_loss / total_train_acc
  total_val_n,        \* batches added to total_val_loss / total_val_acc
  \* ---- the model, the optimizer, the scheduler, the checkpoint directory
  model_mode,         \* "train" | "eval"
  optimizer_steps,    \* number of optimizer.step() calls
  trained,            \* samples some optimizer step was taken on
  validated,          \* samples added to the validation accumulators
  scheduler_steps,    \* number of lr_scheduler.step() calls
  checkpoints,        \* epoch numbers of the paddle.save calls, in order
  mask_calls          \* calls of generate_binary_sequence made so far

train_args == <<epochs, val_ratio, lr_is_float, lr_shedular_type, n_batches>>
train_locals == <<pc, error, len_data, len_val, len_train, data_split_musk, epoch,
                  batch_idx, remaining, total_train_n, total_val_n>>
train_objects == <<model_mode, optimizer_steps, trained, validated, scheduler_steps,
                   checkpoints, mask_calls>>
train_vars == <<train_args, train_locals, train_objects>>

VARIABLES
  \* ---- utils/metrics.py: one call of PixelBinaryCrossEntropyLoss.forward
  logits,        \* scores per pixel, in thousandths
  bce_label,     \* labels per pixel: 0, 1 or the ignore sentinel
  weight,        \* self.weight: None or <<w>>
  reduction,     \* self.reduction
  loss,          \* the returned value: [scalar, tensor]
  loss_status    \* "called" | "returned"

loss_vars == <<logits, bce_label, weight, reduction, loss, loss_status>>

VARIABLES
  \* ---- ERA5_dataset_preprocessing: the crop scripts and the final merge
  interp,        \* kind -> the interpolated archive (input file of the crop)
  cropped,       \* kind -> the crop's output file
  crop_result,   \* kind -> "none" | "returned" | "ValueError" | "IndexError"
  crop_warned,   \* kind -> the dimension warning was printed
  merged,        \* the output file of merge_precipitation_to_land
  merge_result   \* "none" | "merged" | "None"

assembly_vars == <<interp, cropped, crop_result, crop_warned, merged, merge_result>>

VARIABLES
  \* ---- 4.处理rain数据/3.克里金插值.py: kriging_interpolate_precipitation
  kr_data_vars,      \* ds.data_vars of the input archive
  kr_time_dim,       \* 'time' in precip.dims
  values_valid,      \* per time step: the number of non-NaN source points
  n_time,            \* the local n_time
  kr_t,              \* the loop variable t (from 0)
  interpolated_data, \* per time step: "zeros" | "kriging" | "linear" | "nan"
  kr_assignments,    \* per time step: how often interpolated_data[t] was assigned
  kr_attempts,       \* per time step: the methods tried, with their outcome
  kr_output,         \* the output file
  kr_pc              \* "call" | "loop" | "kriging" | "fallback" | "build" |
                     \* "returned" | "ValueError"

kriging_vars == <<kr_data_vars, kr_time_dim, values_valid, n_time, kr_t,
                  interpolated_data, kr_assignments, kr_attempts, kr_output, kr_pc>>

VARIABLES
  \* ---- 0.下载数据/2.下载land数据.py: the main thread and one thread per month
  dl_range,          \* <<start_year, start_month, end_year, end_month>>
  monthly_requests,  \* the list of <<year, month>> pairs
  threads,           \* the list `threads`: per thread its args <<year, month>>
  thread_state,      \* per thread: "started" | "retrieved" | "handed" | "logged"
  idm_queue,         \* the <<year, month>> files handed to the download manager
  dl_log,            \* the <<year, month>> pairs of the printed errors
  dl_joined,         \* how many threads the join loop has joined
  dl_main            \* "start" | "launch" | "join" | "finished"

download_vars == <<dl_range, monthly_requests, threads, thread_state, idm_queue,
                   dl_log, dl_joined, dl_main>>

VARIABLES
  \* ---- 4.处理rain数据/1.按日加和.py: manual_daily_aggregation
  times,          \* the date of every hourly sample, in file order
  tp,             \* ds['tp']: the value of every hourly sample
  unique_dates,   \* sorted(set(times.date))
  agg_i,          \* how many dates the loop has visited
  daily_precip,   \* the list of day sums
  dates_list,     \* the list of their dates
  daily_ds,       \* the returned dataset
  agg_pc          \* "call" | "loop" | "returned" | "ValueError"

aggregation_vars == <<times, tp, unique_dates, agg_i, daily_precip, dates_list,
                      daily_ds, agg_pc>>

vars == <<split_vars, dataset_vars, metrics_vars, train_vars, loss_vars, assembly_vars,
    kriging_vars, download_vars, aggregation_vars>>

\* what the actions of one component leave alone
not_split == <<dataset_vars, metrics_vars, train_vars, loss_vars, assembly_vars,
    kriging_vars, download_vars, aggregation_vars>>
not_dataset == <<split_vars, metrics_vars, train_vars, loss_vars, assembly_vars,
    kriging_vars, download_vars, aggregation_vars>>
not_metrics == <<split_vars, dataset_vars, train_vars, loss_vars, assembly_vars,
    kriging_vars, download_vars, aggregation_vars>>
not_train == <<split_vars, dataset_vars, metrics_vars, loss_vars, assembly_vars,
    kriging_vars, download_vars, aggregation_vars>>
not_loss == <<split_vars, dataset_vars, metrics_vars, train_vars, assembly_vars,
    kriging_vars, download_vars, aggregation_vars>>
not_assembly == <<split_vars, dataset_vars, metrics_vars, train_vars, loss_vars,
    kriging_vars, download_vars, aggregation_vars>>
not_kriging == <<split_vars, dataset_vars, metrics_vars, train_vars, loss_vars,
    assembly_vars, download_vars, aggregation_vars>>
not_download == <<split_vars, dataset_vars, metrics_vars, train_vars, loss_vars,
    assembly_vars, kriging_vars, aggregation_vars>>
not_aggregation == <<split_vars, dataset_vars, metrics_vars, train_vars, loss_vars,
    assembly_vars, kriging_vars, download_vars>>

\* ===================================================================
\* utils/data_split_musk.py
\* ===================================================================

\* zero_ratio values tried: -1/RatioDen .. 1 + (RatioDen \div 2)/RatioDen
RatioValues == (0 - 1) .. (RatioDen + (RatioDen \div 2))

\* mutant: the upper endpoint 1 rejected
RatioInRangeOpen(r) == 0 <= r /\ r < RatioDen

\* `0 <= zero_ratio <= 1`
RatioInRange(r) == 0 <= r /\ r <= RatioDen

\* Python int(x): truncation toward zero of num/den (den > 0)
TruncDiv(num, den) == IF num >= 0 THEN num \div den ELSE 0 - ((0 - num) \div den)

\* mutant: the count rounded up instead of truncated
ZerosCountRoundedUp(len, r) == TruncDiv(len * r + RatioDen - 1, RatioDen)

\* zeros_count = int(length * zero_ratio)
zeros_count(len, r) == TruncDiv(len * r, RatioDen)

\* ones_count = length - zeros_count
ones_count(len, r) == len - zeros_count(len, r)

\* Python list repetition [v] * n (empty when n <= 0)
Repeat(v, n) == [i \in 1 .. n |-> v]

\* sequence = [0] * zeros_count + [1] * ones_count
BaseSequence(len, r) == Repeat(0, zeros_count(len, r)) \o Repeat(1, ones_count(len, r))

\* np.random.shuffle(sequence): any permutation of the entries
Shuffles(s) == { [i \in 1 .. Len(s) |-> s[p[i]]] : p \in Permutations(1 .. Len(s)) }

\* the lists generate_binary_sequence(len, r) can return; {} when it raises
GenerateResults(len, r) ==
  IF ~ RatioInRange(r) THEN {} ELSE Shuffles(BaseSequence(len, r))

OffSplit ==
  /\ length = 0
  /\ zero_ratio = 0
  /\ sequence = <<>>
  /\ shuffled = FALSE
  /\ gbs_status = "off"

OffDataset ==
  /\ ds1_valid_time = <<>>
  /\ ds1_data_vars = <<>>
  /\ ds2_data_vars = <<>>
  /\ ds2_steps = 0
  /\ npy_steps = 0
  /\ arg_nc1_variables = <<>>
  /\ arg_nc2_variables = <<>>
  /\ arg_sequence_length = 0
  /\ ds_status = "off"
  /\ sequence_length = 0
  /\ timestamps = <<>>
  /\ nc1_variables = <<>>
  /\ nc2_variables = <<>>
  /\ total_time_steps = 0
  /\ get_index = 0
  /\ get_status = "none"
  /\ input_data = <<>>
  /\ label = <<>>
  /\ find_target = 0
  /\ find_status = "none"
  /\ valid_indices = <<>>

OffMetrics ==
  /\ pred = <<>>
  /\ label_px = <<>>
  /\ threshold = 0
  /\ acc = [num |-> 0, den |-> 1]
  /\ acc_status = "off"

OffTrain ==
  /\ epochs = 0
  /\ val_ratio = 0
  /\ lr_is_float = TRUE
  /\ lr_shedular_type = "batch"
  /\ n_batches = 0
  /\ pc = "off"
  /\ error = "none"
  /\ len_data = 0
  /\ len_val = 0
  /\ len_train = 0
  /\ data_split_musk = <<>>
  /\ epoch = 0
  /\ batch_idx = 0
  /\ remaining = {}
  /\ total_train_n = 0
  /\ total_val_n = 0
  /\ model_mode = "train"
  /\ optimizer_steps = 0
  /\ trained = {}
  /\ validated = {}
  /\ scheduler_steps = 0
  /\ checkpoints = <<>>
  /\ mask_calls = 0

OffLoss ==
  /\ logits = <<>>
  /\ bce_label = <<>>
  /\ weight = <<>>
  /\ reduction = "mean"
  /\ loss = [scalar |-> [num |-> 0, den |-> 1], tensor |-> <<>>]
  /\ loss_status = "off"

OffAssembly ==
  /\ interp = <<>>
  /\ cropped = <<>>
  /\ crop_result = <<>>
  /\ crop_warned = <<>>
  /\ merged = <<>>
  /\ merge_result = "off"

OffKriging ==
  /\ kr_data_vars = {}
  /\ kr_time_dim = FALSE
  /\ values_valid = <<>>
  /\ n_time = 0
  /\ kr_t = 0
  /\ interpolated_data = <<>>
  /\ kr_assignments = <<>>
  /\ kr_attempts = <<>>
  /\ kr_output = <<>>
  /\ kr_pc = "off"

OffDownload ==
  /\ dl_range = <<>>
  /\ monthly_requests = <<>>
  /\ threads = <<>>
  /\ thread_state = <<>>
  /\ idm_queue = {}
  /\ dl_log = {}
  /\ dl_joined = 0
  /\ dl_main = "off"

OffAggregation ==
  /\ times = <<>>
  /\ tp = <<>>
  /\ unique_dates = <<>>
  /\ agg_i = 0
  /\ daily_precip = <<>>
  /\ dates_list = <<>>
  /\ daily_ds = <<>>
  /\ agg_pc = "off"

InitSplit ==
  /\ OffAggregation
  /\ OffDownload
  /\ OffKriging
  /\ OffAssembly
  /\ OffLoss
  /\ OffDataset
  /\ OffMetrics
  /\ OffTrain
  /\ length \in 0 .. MaxLen
  /\ zero_ratio \in RatioValues
  /\ sequence = <<>>
  /\ shuffled = FALSE
  /\ gbs_status = "called"

\* the whole call: range check, counts, list, shuffle, return
generate_binary_sequence ==
  /\ gbs_status = "called"
  /\ IF GenerateResults(length, zero_ratio) = {}
       THEN /\ gbs_status' = "ValueError"
            /\ UNCHANGED <<sequence, shuffled>>
       ELSE /\ sequence' \in GenerateResults(length, zero_ratio)
            /\ shuffled' = TRUE
            /\ gbs_status' = "returned"
  /\ UNCHANGED <<length, zero_ratio>>
  /\ UNCHANGED not_split

NextSplit == generate_binary_sequence

SpecSplit == InitSplit /\ [][NextSplit]_vars

\* ---- claims about generate_binary_sequence

CountOf(s, v) == Cardinality({i \in DOMAIN s : s[i] = v})

\* floor(len * r / RatioDen), stated by its defining inequality
IsFloorOfProduct(k, len, r) ==
  /\ k * RatioDen <= len * r
  /\ len * r < (k + 1) * RatioDen

\* C1: for length >= 0 and zero_ratio in [0,1] the call returns a list of
\* exactly `length` entries, each 0 or 1, with floor(length * zero_ratio)
\* zeros and length minus that many ones.
C1_SequenceShape ==
  /\ (gbs_status # "called" /\ RatioInRange(zero_ratio)) => gbs_status = "returned"
  /\ gbs_status = "returned" =>
       /\ Len(sequence) = length
       /\ \A i \in DOMAIN sequence : sequence[i] \in {0, 1}
       /\ IsFloorOfProduct(CountOf(sequence, 0), length, zero_ratio)
       /\ CountOf(sequence, 1) = length - CountOf(sequence, 0)

\* a returned list with both values present and a product that is not exact
C1_Witness ==
  /\ gbs_status = "returned"
  /\ CountOf(sequence, 0) >= 1
  /\ CountOf(sequence, 1) >= 1
  /\ (length * zero_ratio) % RatioDen # 0
  /\ sequence # BaseSequence(length, zero_ratio)

\* C2: the call fails with ValueError (InvalidInput), returning nothing and
\* shuffling nothing, exactly when zero_ratio < 0 or zero_ratio > 1; the
\* endpoints 0 and 1 are accepted.
C2_InvalidRatio ==
  gbs_status # "called" =>
    /\ gbs_status = "ValueError" <=> (zero_ratio < 0 \/ zero_ratio > RatioDen)
    /\ gbs_status = "ValueError" => (sequence = <<>> /\ shuffled = FALSE)
    /\ zero_ratio \in {0, RatioDen} => gbs_status = "returned"

\* zero_ratio = 1.5 rejected
C2_Witness ==
  /\ gbs_status = "ValueError"
  /\ 2 * zero_ratio = 3 * RatioDen
  /\ length > 0

\* ===================================================================
\* utils/dataloader.py
\* ===================================================================

\* largest number of time steps of the land archive
MaxSteps == 8
\* sequence lengths tried: 1 .. MaxSeqLen and the default
MaxSeqLen == 2
\* sequence_length=6
DefaultSeqLen == 6
\* longest explicit variable list handed to the constructor
MaxListLen == 2

LandNames == {"sp", "skt"}
PressureNames == {"t_850", "z_500"}

\* all lists over `names` of length <= n (repetitions allowed, as in Python)
ListsUpTo(names, n) == UNION { [1 .. k -> names] : k \in 0 .. n }

\* the data variables an archive can hold, in file order
LandArchives == { <<"sp">>, <<"skt", "sp">> }
PressureArchives == { <<"t_850">>, <<"t_850", "z_500">> }

\* an optional list argument: None is <<>>, the list lst is <<lst>>
None == <<>>
OptionalLists(names, n) == {None} \cup { <<lst>> : lst \in ListsUpTo(names, n) }

InList(x, lst) == \E i \in DOMAIN lst : lst[i] = x

InitDataset ==
  /\ OffAggregation
  /\ OffDownload
  /\ OffKriging
  /\ OffAssembly
  /\ OffLoss
  /\ OffSplit
  /\ OffMetrics
  /\ OffTrain
  /\ \E T \in 1 .. MaxSteps :
       /\ ds1_valid_time = [i \in 1 .. T |-> i]
       /\ ds2_steps = T
       /\ npy_steps = T
  /\ ds1_data_vars \in LandArchives
  /\ ds2_data_vars \in PressureArchives
  /\ arg_nc1_variables \in OptionalLists(LandNames, MaxListLen)
  /\ arg_nc2_variables \in OptionalLists(PressureNames, MaxListLen)
  /\ arg_sequence_length \in (1 .. MaxSeqLen) \cup {DefaultSeqLen}
  /\ ds_status = "new"
  /\ sequence_length = 0
  /\ timestamps = <<>>
  /\ nc1_variables = <<>>
  /\ nc2_variables = <<>>
  /\ total_time_steps = 0
  /\ get_index = 0
  /\ get_status = "none"
  /\ input_data = <<>>
  /\ label = <<>>
  /\ find_target = 0
  /\ find_status = "none"
  /\ valid_indices = <<>>

\* mutant: an absent name is skipped instead of rejected
ValidateVariablesLenient(user_variables, available_vars) ==
  IF user_variables = None
    THEN [raised |-> FALSE, value |-> available_vars]
    ELSE [raised |-> FALSE,
          value |-> SelectSeq(user_variables[1], LAMBDA v : InList(v, available_vars))]

\* _validate_variables: the list it returns, or raised (ValueError)
validate_variables(user_variables, available_vars) ==
  IF user_variables = None
    THEN [raised |-> FALSE, value |-> available_vars]
  ELSE IF \E i \in DOMAIN user_variables[1] :
            ~ InList(user_variables[1][i], available_vars)
    THEN [raised |-> TRUE, value |-> <<>>]
    ELSE [raised |-> FALSE, value |-> user_variables[1]]

\* FireRiskDataset.__init__: load the time stamps, validate the land list, then
\* the pressure list, then record the sizes
Construct ==
  /\ ds_status = "new"
  /\ sequence_length' = arg_sequence_length
  /\ timestamps' = ds1_valid_time
  /\ LET v1 == validate_variables(arg_nc1_variables, ds1_data_vars)
         v2 == validate_variables(arg_nc2_variables, ds2_data_vars)
     IN  IF v1.raised
           THEN /\ ds_status' = "ValueError"
                /\ UNCHANGED <<nc1_variables, nc2_variables, total_time_steps>>
         ELSE IF v2.raised
           THEN /\ ds_status' = "ValueError"
                /\ nc1_variables' = v1.value
                /\ UNCHANGED <<nc2_variables, total_time_steps>>
         ELSE /\ ds_status' = "ready"
              /\ nc1_variables' = v1.value
              /\ nc2_variables' = v2.value
              /\ total_time_steps' = Len(ds1_valid_time)
  /\ UNCHANGED <<file_vars, arg_vars, get_vars, find_vars>>
  /\ UNCHANGED not_dataset

\* mutant: one sample too many
DatasetLenLong == total_time_steps - sequence_length + 1

\* mutant: one sample too few
DatasetLenShort == total_time_steps - sequence_length - 1

\* FireRiskDataset.__len__
DatasetLen == total_time_steps - sequence_length

\* get_sequence_timestamps: end_index and label_index
EndIndex(start_index) == start_index + sequence_length
LabelTimeIndex(start_index) == EndIndex(start_index)

\* self.timestamps[i], 0-based; positions past the end raise IndexError
TimestampAt(i) == timestamps[i + 1]

\* get_sequence_timestamps(start_index)
get_sequence_timestamps(start_index) ==
  IF LabelTimeIndex(start_index) >= Len(timestamps)
    THEN [raised |-> TRUE]
    ELSE [raised |-> FALSE,
          sequence_start |-> TimestampAt(start_index),
          sequence_end |-> TimestampAt(EndIndex(start_index) - 1),
          label_time |-> TimestampAt(LabelTimeIndex(start_index)),
          sequence_dates |-> [k \in 1 .. sequence_length |->
                                TimestampAt(start_index + k - 1)]]

\* the 2-D field of variable var_name at time position i of an archive
Field(archive, var_name, i) == <<archive, var_name, i>>

\* the inner loop of __getitem__: one field per variable at step i, stacked
RECURSIVE StackFields(_, _, _)
StackFields(archive, variables, i) ==
  IF variables = <<>> THEN <<>>
  ELSE <<Field(archive, Head(variables), i)>> \o StackFields(archive, Tail(variables), i)

\* mutant: the window read backwards, newest step first
RECURSIVE LandSequenceReversed(_, _, _)
LandSequenceReversed(variables, i, end_time) ==
  IF i >= end_time THEN <<>>
  ELSE LandSequenceReversed(variables, i + 1, end_time) \o StackFields("ds1", variables, i)

\* the outer loop: the stacks of steps i .. end_time-1, concatenated
RECURSIVE LandSequence(_, _, _)
LandSequence(variables, i, end_time) ==
  IF i >= end_time THEN <<>>
  ELSE StackFields("ds1", variables, i) \o LandSequence(variables, i + 1, end_time)

\* mutant: the label taken after the window
LabelIndexAfterWindow(start_time) == start_time + sequence_length

\* label = self.npy_data[start_time]
LabelIndex(start_time) == start_time

\* __getitem__(index) with transform=None: what it returns or raises.
\* np.stack of an empty list raises ValueError; a position past the end of an
\* archive raises IndexError.
getitem(index) ==
  LET start_time == index
      end_time == start_time + sequence_length
      Raise(e) == [status |-> e, input_data |-> <<>>, label |-> <<>>]
  IN  IF nc1_variables = <<>> THEN Raise("ValueError")
      ELSE IF end_time > Len(ds1_valid_time) THEN Raise("IndexError")
      ELSE IF nc2_variables = <<>> THEN Raise("ValueError")
      ELSE IF end_time - 1 >= ds2_steps THEN Raise("IndexError")
      ELSE IF LabelIndex(start_time) >= npy_steps THEN Raise("IndexError")
      ELSE [status |-> "returned",
            input_data |-> LandSequence(nc1_variables, start_time, end_time)
                             \o StackFields("ds2", nc2_variables, end_time - 1),
            label |-> <<"npy", LabelIndex(start_time)>>]

\* one call dataset[index], index >= 0
GetItem ==
  /\ ds_status = "ready"
  /\ \E index \in 0 .. total_time_steps :
       /\ get_index' = index
       /\ get_status' = getitem(index).status
       /\ input_data' = getitem(index).input_data
       /\ label' = getitem(index).label
  /\ UNCHANGED <<file_vars, arg_vars, field_vars, find_vars>>
  /\ UNCHANGED not_dataset

NextDataset == Construct \/ GetItem

SpecDataset == InitDataset /\ [][NextDataset]_vars

\* ---- find_samples_by_timestamp

\* time stamps of the archives searched, and the targets looked for (0 is
\* in no archive)
StampValues == {1, 2, 3}
Targets == StampValues \cup {0}

\* a time axis in file order: ascending, a stamp may repeat
Ascending(s) == \A i, j \in DOMAIN s : i <= j => s[i] <= s[j]

\* archives whose time axis may hold a stamp more than once; every variable
\* of the archives is selected
InitFind ==
  /\ OffAggregation
  /\ OffDownload
  /\ OffKriging
  /\ OffAssembly
  /\ OffLoss
  /\ OffSplit
  /\ OffMetrics
  /\ OffTrain
  /\ \E T \in 1 .. MaxSteps :
       /\ ds1_valid_time \in {s \in [1 .. T -> StampValues] : Ascending(s)}
       /\ ds2_steps = T
       /\ npy_steps = T
  /\ ds1_data_vars = <<"skt", "sp">>
  /\ ds2_data_vars = <<"t_850">>
  /\ arg_nc1_variables = None
  /\ arg_nc2_variables = None
  /\ arg_sequence_length \in (1 .. MaxSeqLen) \cup {DefaultSeqLen}
  /\ ds_status = "new"
  /\ sequence_length = 0
  /\ timestamps = <<>>
  /\ nc1_variables = <<>>
  /\ nc2_variables = <<>>
  /\ total_time_steps = 0
  /\ get_index = 0
  /\ get_status = "none"
  /\ input_data = <<>>
  /\ label = <<>>
  /\ find_target = 0
  /\ find_status = "none"
  /\ valid_indices = <<>>

\* np.where(self.timestamps == target_timestamp)[0]: the 0-based positions
\* of the target, ascending
TimeIndices(target_timestamp) ==
  SelectSeq([i \in 1 .. Len(timestamps) |-> i - 1],
            LAMBDA idx : TimestampAt(idx) = target_timestamp)

\* mutant: the position whose label would fall past the end is kept
find_samples_by_timestamp_inclusive(target_timestamp) ==
  SelectSeq(TimeIndices(target_timestamp),
            LAMBDA idx : idx + sequence_length <= Len(timestamps))

\* find_samples_by_timestamp(target_timestamp): the positions of the target
\* that can start a sequence
find_samples_by_timestamp(target_timestamp) ==
  SelectSeq(TimeIndices(target_timestamp),
            LAMBDA idx : idx + sequence_length < Len(timestamps))

\* one call dataset.find_samples_by_timestamp(target)
FindSamples ==
  /\ ds_status = "ready"
  /\ find_status = "none"
  /\ \E target \in Targets :
       /\ find_target' = target
       /\ valid_indices' = find_samples_by_timestamp(target)
  /\ find_status' = "returned"
  /\ UNCHANGED <<file_vars, arg_vars, field_vars, get_vars>>
  /\ UNCHANGED not_dataset

NextFind == Construct \/ FindSamples

SpecFind == InitFind /\ [][NextFind]_vars

\* ---- claims about FireRiskDataset

\* the variables a constructor argument selects from an archive
Selected(arg, available_vars) == IF arg = None THEN available_vars ELSE arg[1]
SelectedLand == Selected(arg_nc1_variables, ds1_data_vars)
SelectedPressure == Selected(arg_nc2_variables, ds2_data_vars)

\* an explicit list that names a variable the archive does not hold
RequestsAbsent(arg, available_vars) ==
  arg # None /\ \E i \in DOMAIN arg[1] : ~ InList(arg[1][i], available_vars)

\* C5: over a land archive with T time steps and sequence length L,
\* len(dataset) = T - L.
C5_Length ==
  ds_status = "ready" => DatasetLen = Len(ds1_valid_time) - arg_sequence_length

\* the default sequence length over an archive that yields samples
C5_Witness ==
  /\ ds_status = "ready"
  /\ arg_sequence_length = DefaultSeqLen
  /\ DatasetLen = Len(ds1_valid_time) - DefaultSeqLen
  /\ DatasetLen >= 2

\* C6: a returned input is the land fields at positions index .. index+L-1 in
\* that order, each step giving every selected land variable in list order,
\* followed by the selected pressure fields at position index+L-1: exactly
\* L * |land variables| + |pressure variables| channels.
C6_InputLayout ==
  get_status = "returned" =>
    LET L == arg_sequence_length
        n1 == Len(SelectedLand)
        n2 == Len(SelectedPressure)
    IN  /\ Len(input_data) = L * n1 + n2
        /\ \A k \in 0 .. L - 1 : \A j \in 1 .. n1 :
             input_data[k * n1 + j] = <<"ds1", SelectedLand[j], get_index + k>>
        /\ \A j \in 1 .. n2 :
             input_data[L * n1 + j] = <<"ds2", SelectedPressure[j], get_index + L - 1>>

\* a six-step window starting after position 0 with two variables of each kind
C6_Witness ==
  /\ get_status = "returned"
  /\ arg_sequence_length = DefaultSeqLen
  /\ get_index >= 1
  /\ Len(SelectedLand) = 2
  /\ Len(SelectedPressure) = 2
  /\ Len(input_data) = 14

\* C7: the returned label is the label slice right after the window, at
\* position index + L (the position get_sequence_timestamps calls label_time).
C7_LabelAfterWindow ==
  (get_status = "returned" /\ get_index < DatasetLen) => label = <<"npy", LabelTimeIndex(get_index)>>

PositionsRead == {input_data[k][3] : k \in DOMAIN input_data} \cup {label[2]}

\* C28: for every index in [0, len(dataset)) over T land time steps, every
\* time position read by __getitem__(index) and by
\* get_sequence_timestamps(index) lies in [0, T-1]: neither raises an
\* IndexError, and the largest position touched is index + L <= T - 1.
C28_PositionsInRange ==
  (get_status # "none" /\ get_index < DatasetLen) =>
    LET T == Len(ds1_valid_time)
        L == arg_sequence_length
    IN  /\ get_status # "IndexError"
        /\ get_status = "returned" => PositionsRead \subseteq 0 .. T - 1
        /\ ~ get_sequence_timestamps(get_index).raised
        /\ EndIndex(get_index) - 1 \in 0 .. T - 1
        /\ LabelTimeIndex(get_index) = get_index + L
        /\ LabelTimeIndex(get_index) \in 0 .. T - 1

\* the last sample of a dataset with two samples: its label time is the
\* last time step of the archive
C28_Witness ==
  /\ get_status = "returned"
  /\ arg_sequence_length = DefaultSeqLen
  /\ DatasetLen = 2
  /\ get_index = DatasetLen - 1
  /\ LabelTimeIndex(get_index) = Len(ds1_valid_time) - 1
  /\ DefaultSeqLen \in PositionsRead

\* the indices a find call returned
Returned == {valid_indices[k] : k \in DOMAIN valid_indices}

\* C29: find_samples_by_timestamp(t) returns exactly the positions idx with
\* timestamps[idx] = t and idx + L < T, each once: every returned index is a
\* valid dataset index and every valid dataset index whose window starts at
\* time stamp t is returned.
C29_FindSamples ==
  find_status = "returned" =>
    LET T == Len(ds1_valid_time)
        L == arg_sequence_length
    IN  /\ Returned = {idx \in 0 .. T - 1 :
                          ds1_valid_time[idx + 1] = find_target /\ idx + L < T}
        /\ \A j, k \in DOMAIN valid_indices : valid_indices[j] = valid_indices[k] => j = k
        /\ \A idx \in Returned : 0 <= idx /\ idx < DatasetLen
        /\ \A idx \in 0 .. DatasetLen - 1 :
             get_sequence_timestamps(idx).sequence_start = find_target => idx \in Returned

\* the target is at three positions of the time axis; the last of them is
\* too close to the end to start a sequence and is left out
C29_Witness ==
  /\ find_status = "returned"
  /\ Len(valid_indices) = 2
  /\ Cardinality({i \in DOMAIN timestamps : timestamps[i] = find_target}) = 3
  /\ timestamps[Len(timestamps)] = find_target
  /\ sequence_length = 1

\* C9: construction fails (ValueError) exactly when an explicit list names a
\* variable absent from its archive, and then no get returns a sample; an
\* omitted list selects every variable of the archive and raises nothing.
C9_MissingVariable ==
  ds_status # "new" =>
    /\ ds_status = "ValueError" <=>
         (\/ RequestsAbsent(arg_nc1_variables, ds1_data_vars)
          \/ RequestsAbsent(arg_nc2_variables, ds2_data_vars))
    /\ ds_status = "ValueError" => get_status = "none"
    /\ (arg_nc1_variables = None /\ arg_nc2_variables = None) => ds_status = "ready"
    /\ (ds_status = "ready" /\ arg_nc1_variables = None) => nc1_variables = ds1_data_vars
    /\ (ds_status = "ready" /\ arg_nc2_variables = None) => nc2_variables = ds2_data_vars

\* the land list omitted, the pressure list naming an absent variable
C9_Witness ==
  /\ ds_status = "ValueError"
  /\ arg_nc1_variables = None
  /\ RequestsAbsent(arg_nc2_variables, ds2_data_vars)
  /\ nc1_variables = ds1_data_vars

\* ===================================================================
\* utils/metrics.py
\* ===================================================================

\* largest number of pixels of a tensor
MaxPixels == 3
\* ignore_index=255
IgnoreIndex == 255
\* threshold=0.5, in thousandths
DefaultThreshold == 500

\* scores tried, in thousandths: -2.0, 0.0, 0.3, 2.0
PredValues == {0 - 2000, 0, 300, 2000}
LabelValues == {0, 1, IgnoreIndex}
Thresholds == {DefaultThreshold, 600}

\* F.sigmoid on the scores tried, and on the probabilities and hard labels
\* it yields (0.119, 0.5, 0.574, 0.881, 1.0), rounded to thousandths
Sigmoid(x) ==
  CASE x = 0 - 2000 -> 119
    [] x = 0 -> 500
    [] x = 300 -> 574
    [] x = 2000 -> 881
    [] x = 119 -> 530
    [] x = 500 -> 622
    [] x = 574 -> 640
    [] x = 881 -> 707
    [] x = 1000 -> 731

\* tensors flattened to their pixels (squeeze(1) only drops the channel axis)
Tensors(values) == UNION { [1 .. n -> values] : n \in 0 .. MaxPixels }

\* binary_pred = (prob > threshold).astype('int64')
BinaryPred(p, thr) == [i \in DOMAIN p |-> IF Sigmoid(p[i]) > thr THEN 1 ELSE 0]

\* valid_mask = (label != ignore_index)
ValidMask(lbl) == [i \in DOMAIN lbl |-> lbl[i] # IgnoreIndex]

\* correct = (binary_pred == label.astype('int64')) & valid_mask
Correct(p, lbl, thr) ==
  [i \in DOMAIN lbl |-> BinaryPred(p, thr)[i] = lbl[i] /\ ValidMask(lbl)[i]]

\* mask.astype('float32').sum()
SumOf(mask) == Cardinality({i \in DOMAIN mask : mask[i]})

\* mutant: every pixel counted as valid
TotalValidUnmasked(lbl) == Len(lbl)

\* total_valid = valid_mask.astype('float32').sum()
TotalValid(lbl) == SumOf(ValidMask(lbl))

\* tensor division a / b; 0/0 is NaN, kept as the fraction 0/0
Divide(a, b) == [num |-> a, den |-> b]

\* pixel_binary_accuracy(pred, label, threshold)
pixel_binary_accuracy(p, lbl, thr) ==
  IF TotalValid(lbl) > 0
    THEN Divide(SumOf(Correct(p, lbl, thr)), TotalValid(lbl))
    ELSE [num |-> 0, den |-> 1]

InitMetrics ==
  /\ OffAggregation
  /\ OffDownload
  /\ OffKriging
  /\ OffAssembly
  /\ OffLoss
  /\ OffSplit
  /\ OffDataset
  /\ OffTrain
  /\ \E n \in 0 .. MaxPixels :
       /\ pred \in [1 .. n -> PredValues]
       /\ label_px \in [1 .. n -> LabelValues]
  /\ threshold \in Thresholds
  /\ acc = [num |-> 0, den |-> 1]
  /\ acc_status = "called"

Accuracy ==
  /\ acc_status = "called"
  /\ acc' = pixel_binary_accuracy(pred, label_px, threshold)
  /\ acc_status' = "returned"
  /\ UNCHANGED <<pred, label_px, threshold>>
  /\ UNCHANGED not_metrics

NextMetrics == Accuracy

SpecMetrics == InitMetrics /\ [][NextMetrics]_vars

\* ---- claims about pixel_binary_accuracy

NonIgnored == {i \in DOMAIN label_px : label_px[i] # IgnoreIndex}
Agreeing == {i \in NonIgnored : (IF Sigmoid(pred[i]) > threshold THEN 1 ELSE 0) = label_px[i]}

\* the fraction f equals n / d (d > 0)
FractionIs(f, n, d) == f.den # 0 /\ f.num * d = n * f.den

\* C10: the accuracy is (non-ignored pixels whose thresholded prediction
\* equals the label) / (non-ignored pixels); it does not depend on the
\* prediction at an ignored pixel; it is 1 when prediction and label agree
\* on every non-ignored pixel; it is exactly 0 when every pixel is ignored.
C10_Accuracy ==
  acc_status = "returned" =>
    /\ NonIgnored # {} =>
         FractionIs(acc, Cardinality(Agreeing), Cardinality(NonIgnored))
    /\ (NonIgnored # {} /\ Agreeing = NonIgnored) => FractionIs(acc, 1, 1)
    /\ NonIgnored = {} => (acc.num = 0 /\ acc.den # 0)
    /\ \A other \in [DOMAIN pred -> PredValues] :
         (\A i \in NonIgnored : other[i] = pred[i]) =>
           pixel_binary_accuracy(other, label_px, threshold) = acc

\* agreement on the non-ignored pixels, next to an ignored pixel whose
\* prediction is not a label at all
C10_Witness ==
  /\ acc_status = "returned"
  /\ Len(label_px) = MaxPixels
  /\ Cardinality(NonIgnored) = 2
  /\ Agreeing = NonIgnored
  /\ acc = [num |-> 2, den |-> 2]

\* ---- the evaluation pass of train.py: the model's head, then the accuracy

\* model.py lines 63-74, BinarySegmentationHead.forward on the output x of
\* self.conv: the probabilities, or the hard labels 0.0 / 1.0
BinarySegmentationHead_forward(x, hard_labels, thr) ==
  LET probabilities == [i \in DOMAIN x |-> Sigmoid(x[i])]
  IN  IF hard_labels
        THEN [i \in DOMAIN x |-> IF probabilities[i] > thr THEN 1000 ELSE 0]
        ELSE probabilities

\* train.py line 117 is about to call the model; pred holds the output of
\* the head's convolution, label_px the labels of the batch
InitDriverEval ==
  /\ OffAggregation
  /\ OffDownload
  /\ OffKriging
  /\ OffAssembly
  /\ OffLoss
  /\ OffSplit
  /\ OffDataset
  /\ OffTrain
  /\ \E n \in 0 .. MaxPixels :
       /\ pred \in [1 .. n -> PredValues]
       /\ label_px \in [1 .. n -> LabelValues]
  /\ threshold = DefaultThreshold
  /\ acc = [num |-> 0, den |-> 1]
  /\ acc_status = "forward"

\* train.py line 117: outputs = model(inputs, hard_labels = False); lines 122
\* and 127 then call pixel_binary_accuracy(outputs, labels, threshold=0.5)
ModelForward ==
  /\ acc_status = "forward"
  /\ pred' = BinarySegmentationHead_forward(pred, FALSE, DefaultThreshold)
  /\ acc_status' = "called"
  /\ UNCHANGED <<label_px, threshold, acc>>
  /\ UNCHANGED not_metrics

NextDriverEval ==
  \/ ModelForward
  \/ Accuracy

SpecDriverEval == InitDriverEval /\ [][NextDriverEval]_vars

\* the accuracy of hard predictions hard against the labels
AccuracyOf(hard) ==
  LET agreeing == {i \in NonIgnored : hard[i] = label_px[i]}
  IN  IF NonIgnored = {}
        THEN [num |-> 0, den |-> 1]
        ELSE [num |-> Cardinality(agreeing), den |-> Cardinality(NonIgnored)]

\* C27: in the evaluation pass the hard prediction used for the accuracy
\* reflects the model's probability: a pixel is predicted 1 exactly when the
\* probability the model returned exceeds 0.5, and the accuracy returned is
\* the accuracy of those predictions.
C27_HardPrediction ==
  acc_status = "returned" =>
    LET by_probability ==
          [i \in DOMAIN pred |-> IF pred[i] > DefaultThreshold THEN 1 ELSE 0]
    IN  /\ \A i \in DOMAIN pred :
             BinaryPred(pred, threshold)[i] = 1 <=> pred[i] > DefaultThreshold
        /\ acc = AccuracyOf(by_probability)

\* ---- PixelBinaryCrossEntropyLoss

Reductions == {"mean", "sum", "none"}
\* self.weight values tried: None and the scalar 2
Weights == {None, <<2>>}

\* F.binary_cross_entropy(prob, label, reduction='none') at one pixel, in
\* thousandths: -(label*log(prob) + (1-label)*log(1-prob)) on the
\* probabilities Sigmoid yields; the sentinel 255 goes through the same formula
BinaryCrossEntropy(prob, lbl) ==
  CASE lbl = 1 ->
         (CASE prob = 119 -> 2127 [] prob = 500 -> 693 [] prob = 574 -> 554
            [] prob = 881 -> 127)
    [] lbl = 0 ->
         (CASE prob = 119 -> 127 [] prob = 500 -> 693 [] prob = 574 -> 854
            [] prob = 881 -> 2127)
    [] lbl = IgnoreIndex ->
         (CASE prob = 119 -> 510127 [] prob = 500 -> 693 [] prob = 574 -> 0 - 75646
            [] prob = 881 -> 0 - 507873)

\* mask = (label != self.ignore_index).astype('float32')
MaskFloat(lbl) == [i \in DOMAIN lbl |-> IF lbl[i] # IgnoreIndex THEN 1 ELSE 0]

\* tensor.sum()
RECURSIVE TensorSum(_)
TensorSum(t) == IF t = <<>> THEN 0 ELSE Head(t) + TensorSum(Tail(t))

\* loss = binary_cross_entropy(sigmoid(logits), label) * mask [* self.weight]
MaskedLoss(x, lbl, w) ==
  [i \in DOMAIN lbl |->
     BinaryCrossEntropy(Sigmoid(x[i]), lbl[i]) * MaskFloat(lbl)[i]
       * (IF w = None THEN 1 ELSE w[1])]

\* mutant: the mean taken without the zero-count guard
ReduceMeanUnguarded(t, mask) == Divide(TensorSum(t), TensorSum(mask))

\* reduction == 'mean': loss.sum() / mask.sum(), or loss.mean() * 0
ReduceMean(t, mask) ==
  IF TensorSum(mask) > 0
    THEN Divide(TensorSum(t), TensorSum(mask))
    ELSE Divide(TensorSum(t) * 0, Len(t))

\* PixelBinaryCrossEntropyLoss.forward
forward(x, lbl, w, red) ==
  LET t == MaskedLoss(x, lbl, w)
  IN  IF red = "mean"
        THEN [scalar |-> ReduceMean(t, MaskFloat(lbl)), tensor |-> <<>>]
      ELSE IF red = "sum"
        THEN [scalar |-> Divide(TensorSum(t), 1), tensor |-> <<>>]
        ELSE [scalar |-> Divide(0, 1), tensor |-> t]

InitLoss ==
  /\ OffAggregation
  /\ OffDownload
  /\ OffKriging
  /\ OffAssembly
  /\ OffSplit
  /\ OffDataset
  /\ OffMetrics
  /\ OffTrain
  /\ \E n \in 1 .. MaxPixels :
       /\ logits \in [1 .. n -> PredValues]
       /\ bce_label \in [1 .. n -> LabelValues]
  /\ weight \in Weights
  /\ reduction \in Reductions
  /\ loss = [scalar |-> [num |-> 0, den |-> 1], tensor |-> <<>>]
  /\ loss_status = "called"

Forward ==
  /\ loss_status = "called"
  /\ loss' = forward(logits, bce_label, weight, reduction)
  /\ loss_status' = "returned"
  /\ UNCHANGED <<logits, bce_label, weight, reduction>>
  /\ UNCHANGED not_loss

NextLoss == Forward

SpecLoss == InitLoss /\ [][NextLoss]_vars

\* ---- claims about PixelBinaryCrossEntropyLoss

ValidPixels == {i \in DOMAIN bce_label : bce_label[i] # IgnoreIndex}

\* the (weighted) loss of pixel i
PixelLoss(i) ==
  BinaryCrossEntropy(Sigmoid(logits[i]), bce_label[i]) * (IF weight = None THEN 1 ELSE weight[1])

RECURSIVE SumOver(_)
SumOver(S) == IF S = {} THEN 0 ELSE LET i == CHOOSE j \in S : TRUE
                                    IN  PixelLoss(i) + SumOver(S \ {i})

MaxEpochs == 23
\* largest number of batches of the loader
MaxBatches == 3
\* `if epoch % 10 == 0`
CheckpointEvery == 10

InitTrain ==
  /\ OffAggregation
  /\ OffDownload
  /\ OffKriging
  /\ OffAssembly
  /\ OffLoss
  /\ OffSplit
  /\ OffDataset
  /\ OffMetrics
  /\ epochs \in 0 .. MaxEpochs
  /\ val_ratio \in RatioValues
  /\ lr_is_float \in BOOLEAN
  /\ lr_shedular_type \in {"batch", "epoch"}
  /\ n_batches \in 0 .. MaxBatches
  /\ pc = "start"
  /\ error = "none"
  /\ len_data = 0
  /\ len_val = 0
  /\ len_train = 0
  /\ data_split_musk = <<>>
  /\ epoch = 0
  /\ batch_idx = 0
  /\ remaining = {}
  /\ total_train_n = 0
  /\ total_val_n = 0
  /\ model_mode = "train"
  /\ optimizer_steps = 0
  /\ trained = {}
  /\ validated = {}
  /\ scheduler_steps = 0
  /\ checkpoints = <<>>
  /\ mask_calls = 0

\* the samples one pass over the loader yields (shuffle=True: in any order)
Samples == 0 .. len_data - 1

\* the run ends with an uncaught exception
Abort(e) == pc' = "aborted" /\ error' = e

\* lines 28-79: the loader, the split sizes, the split mask, the optimizer
Setup ==
  /\ pc = "start"
  /\ len_data' = n_batches
  /\ len_val' = TruncDiv(val_ratio * n_batches, RatioDen)
  /\ len_train' = n_batches - TruncDiv(val_ratio * n_batches, RatioDen)
  /\ IF GenerateResults(n_batches, val_ratio) = {}
       THEN /\ Abort("ValueError")
            /\ UNCHANGED data_split_musk
       ELSE /\ data_split_musk' \in GenerateResults(n_batches, val_ratio)
            /\ pc' = "loop"
            /\ UNCHANGED error
  /\ model_mode' = "train"
  /\ UNCHANGED <<epoch, batch_idx, remaining, total_train_n, total_val_n>>
  /\ UNCHANGED <<optimizer_steps, trained, validated, scheduler_steps, checkpoints>>
  /\ mask_calls' = mask_calls + 1
  /\ UNCHANGED <<train_args, not_train>>

EpochGeneratesMaskAlways == TRUE

\* lines 80-85: the epoch header and the batch loop only read
\* data_split_musk; they hold no call of generate_binary_sequence
EpochGeneratesMask == FALSE

\* line 80-82: `for epoch in range(1, epochs+1)` takes the next epoch and
\* starts the training pass, or leaves the loop
EpochStart ==
  /\ pc = "loop"
  /\ IF epoch < epochs
       THEN /\ epoch' = epoch + 1
            /\ model_mode' = "train"
            /\ batch_idx' = 0
            /\ remaining' = Samples
            /\ pc' = "train"
       ELSE /\ pc' = "after_loop"
            /\ UNCHANGED <<epoch, model_mode, batch_idx, remaining>>
  /\ UNCHANGED <<error, len_data, len_val, len_train, data_split_musk,
                 total_train_n, total_val_n>>
  /\ UNCHANGED <<optimizer_steps, trained, validated, scheduler_steps, checkpoints>>
  /\ mask_calls' = IF EpochGeneratesMask THEN mask_calls + 1 ELSE mask_calls
  /\ UNCHANGED <<train_args, not_train>>

MaskAtIgnored(i) == 1

\* data_split_musk[batch_idx]
MaskAt(i) == data_split_musk[i + 1]

BatchSchedulerStepIfTrained ==
  ~ lr_is_float /\ lr_shedular_type = "batch" /\ MaskAt(batch_idx) = 1

\* lines 98-100: `if not isinstance(lr_scheduler, float)` and
\* `if lr_shedular_type == 'batch'`, outside the `if` on the mask
BatchSchedulerStep == ~ lr_is_float /\ lr_shedular_type = "batch"

\* lines 82-101: one batch of the training pass
TrainBatch ==
  /\ pc = "train"
  /\ \E sample \in remaining :
       /\ remaining' = remaining \ {sample}
       /\ IF MaskAt(batch_idx) = 1
            THEN /\ optimizer_steps' = optimizer_steps + 1
                 /\ trained' = trained \cup {sample}
            ELSE UNCHANGED <<optimizer_steps, trained>>
  /\ IF BatchSchedulerStep
       THEN scheduler_steps' = scheduler_steps + 1
       ELSE UNCHANGED scheduler_steps
  /\ batch_idx' = batch_idx + 1
  /\ UNCHANGED <<pc, error, len_data, len_val, len_train, data_split_musk, epoch,
                 total_train_n, total_val_n>>
  /\ UNCHANGED <<model_mode, validated, checkpoints>>
  /\ UNCHANGED mask_calls
  /\ UNCHANGED <<train_args, not_train>>

\* mutant: the epoch-end block indented into the batch loop, so it runs after
\* the first batch
TrainEndInsideLoop ==
  /\ pc = "train"
  /\ batch_idx >= 1
  /\ IF ~ lr_is_float /\ lr_shedular_type = "epoch"
       THEN scheduler_steps' = scheduler_steps + 1
       ELSE UNCHANGED scheduler_steps
  /\ pc' = "trained"
  /\ UNCHANGED <<error, len_data, len_val, len_train, data_split_musk, epoch,
                 batch_idx, remaining, total_train_n, total_val_n>>
  /\ UNCHANGED <<model_mode, optimizer_steps, trained, validated, checkpoints>>
  /\ UNCHANGED mask_calls
  /\ UNCHANGED <<train_args, not_train>>

\* lines 104-108: the training pass is exhausted; the per-epoch scheduler step
TrainEnd ==
  /\ pc = "train"
  /\ remaining = {}
  /\ IF ~ lr_is_float /\ lr_shedular_type = "epoch"
       THEN scheduler_steps' = scheduler_steps + 1
       ELSE UNCHANGED scheduler_steps
  /\ pc' = "trained"
  /\ UNCHANGED <<error, len_data, len_val, len_train, data_split_musk, epoch,
                 batch_idx, remaining, total_train_n, total_val_n>>
  /\ UNCHANGED <<model_mode, optimizer_steps, trained, validated, checkpoints>>
  /\ UNCHANGED mask_calls
  /\ UNCHANGED <<train_args, not_train>>

\* lines 110-115: model.eval(), the accumulators zeroed, the evaluation pass
\* started
EvalStart ==
  /\ pc = "trained"
  /\ model_mode' = "eval"
  /\ total_train_n' = 0
  /\ total_val_n' = 0
  /\ batch_idx' = 0
  /\ remaining' = Samples
  /\ pc' = "eval"
  /\ UNCHANGED <<error, len_data, len_val, len_train, data_split_musk, epoch>>
  /\ UNCHANGED <<optimizer_steps, trained, validated, scheduler_steps, checkpoints>>
  /\ UNCHANGED mask_calls
  /\ UNCHANGED <<train_args, not_train>>

F1AccumulatorsInitialised == TRUE

\* lines 111-114 assign total_train_loss, total_train_acc, total_val_loss and
\* total_val_acc; total_train_f1 and total_val_f1 are assigned nowhere
F1AccumulatorsBound == FALSE

\* lines 115-128: one batch of the evaluation pass. Loss and accuracy are
\* added first; `total_..._f1 +=` on an unbound local raises UnboundLocalError.
EvalBatch ==
  /\ pc = "eval"
  /\ \E sample \in remaining :
       /\ remaining' = remaining \ {sample}
       /\ IF MaskAt(batch_idx) = 1
            THEN /\ total_train_n' = total_train_n + 1
                 /\ UNCHANGED <<total_val_n, validated>>
            ELSE /\ total_val_n' = total_val_n + 1
                 /\ validated' = validated \cup {sample}
                 /\ UNCHANGED total_train_n
  /\ IF F1AccumulatorsBound
       THEN /\ batch_idx' = batch_idx + 1
            /\ UNCHANGED <<pc, error>>
       ELSE /\ Abort("UnboundLocalError")
            /\ UNCHANGED batch_idx
  /\ UNCHANGED <<len_data, len_val, len_train, data_split_musk, epoch>>
  /\ UNCHANGED <<model_mode, optimizer_steps, trained, scheduler_steps, checkpoints>>
  /\ UNCHANGED mask_calls
  /\ UNCHANGED <<train_args, not_train>>

\* lines 130-141: the evaluation pass is exhausted; the averages (a float
\* divided by the int 0 raises ZeroDivisionError), then the periodic checkpoint
EvalEnd ==
  /\ pc = "eval"
  /\ remaining = {}
  /\ IF len_train = 0 \/ len_val = 0
       THEN /\ Abort("ZeroDivisionError")
            /\ UNCHANGED checkpoints
       ELSE /\ checkpoints' = IF epoch % CheckpointEvery = 0
                                THEN Append(checkpoints, epoch)
                                ELSE checkpoints
            /\ pc' = "loop"
            /\ UNCHANGED error
  /\ UNCHANGED <<len_data, len_val, len_train, data_split_musk, epoch, batch_idx,
                 remaining, total_train_n, total_val_n>>
  /\ UNCHANGED <<model_mode, optimizer_steps, trained, validated, scheduler_steps>>
  /\ UNCHANGED mask_calls
  /\ UNCHANGED <<train_args, not_train>>

\* lines 143-146: the final checkpoint, return model
Finish ==
  /\ pc = "after_loop"
  /\ checkpoints' = IF epochs % CheckpointEvery # 0
                      THEN Append(checkpoints, epochs)
                      ELSE checkpoints
  /\ pc' = "done"
  /\ UNCHANGED <<error, len_data, len_val, len_train, data_split_musk, epoch,
                 batch_idx, remaining, total_train_n, total_val_n>>
  /\ UNCHANGED <<model_mode, optimizer_steps, trained, validated, scheduler_steps>>
  /\ UNCHANGED mask_calls
  /\ UNCHANGED <<train_args, not_train>>

NextTrain ==
  \/ Setup
  \/ EpochStart
  \/ TrainBatch
  \/ TrainEnd
  \/ EvalStart
  \/ EvalBatch
  \/ EvalEnd
  \/ Finish

SpecTrain == InitTrain /\ [][NextTrain]_vars

\* ---- claims about train_model

\* the epochs a run of n epochs is to checkpoint
CheckpointEpochs(n) == {e \in 1 .. n : e % CheckpointEvery = 0 \/ e = n}

\* C3: a run of `epochs` epochs writes a checkpoint after every epoch
\* divisible by 10 and one for the last epoch if `epochs` is not divisible by
\* 10, no other and none twice (stated for runs with a valid val_ratio and
\* non-empty training and validation parts).
C3_CheckpointCadence ==
  (pc \in {"done", "aborted"} /\ RatioInRange(val_ratio) /\ len_val >= 1 /\ len_train >= 1)
    => /\ {checkpoints[i] : i \in DOMAIN checkpoints} = CheckpointEpochs(epochs)
       /\ Len(checkpoints) = Cardinality(CheckpointEpochs(epochs))

\* C4: in every epoch the evaluation phase starts only after the training
\* pass over the whole loader and the per-epoch scheduler step; a checkpoint
\* is written only after that epoch's evaluation pass is exhausted (or after
\* the loop, for the final one); the next epoch starts only after the
\* checkpoint decision of the previous one.
C4_PhaseOrder ==
  [][ /\ (pc' = "trained" /\ pc # "trained") =>
           /\ pc = "train"
           /\ remaining = {}
           /\ batch_idx = len_data
           /\ optimizer_steps' = epoch' * CountOf(data_split_musk', 1)
      /\ (pc' = "eval" /\ pc # "eval") =>
           /\ pc = "trained"
           /\ epoch' = epoch
           /\ (~ lr_is_float /\ lr_shedular_type = "epoch") => scheduler_steps = epoch
           /\ (~ lr_is_float /\ lr_shedular_type = "batch") =>
                scheduler_steps = epoch * len_data
      /\ checkpoints' # checkpoints =>
           \/ /\ pc = "eval"
              /\ remaining = {}
              /\ batch_idx = len_data
              /\ checkpoints' = Append(checkpoints, epoch)
           \/ /\ pc = "after_loop"
              /\ epoch = epochs
              /\ checkpoints' = Append(checkpoints, epochs)
      /\ epoch' # epoch => (pc = "loop" /\ epoch' = epoch + 1)
      /\ (pc' = "loop" /\ pc # "loop") =>
           (pc = "start" \/ (pc = "eval" /\ remaining = {}))
    ]_vars

\* evaluation started after a training pass of MaxBatches batches with
\* optimizer steps and the per-epoch scheduler step taken
C4_Witness ==
  /\ pc = "eval"
  /\ len_data = MaxBatches
  /\ batch_idx = 0
  /\ optimizer_steps >= 2
  /\ ~ lr_is_float
  /\ lr_shedular_type = "epoch"
  /\ scheduler_steps = 1

\* a step of the training pass that consumes one loader batch
TrainBatchStep == pc = "train" /\ batch_idx' = batch_idx + 1

\* C19: the optimizer steps (the only change of the parameters) are taken
\* in the training pass, one for each batch whose mask entry is 1 together
\* with its forward and backward pass; a batch whose mask entry is 0 gets no
\* forward pass and no optimizer step; the evaluation pass takes none.
C19_OptimizerSteps ==
  [][/\ optimizer_steps' # optimizer_steps =>
          /\ TrainBatchStep
          /\ data_split_musk[batch_idx + 1] = 1
          /\ optimizer_steps' = optimizer_steps + 1
     /\ trained' # trained =>
          /\ TrainBatchStep
          /\ data_split_musk[batch_idx + 1] = 1
          /\ optimizer_steps' = optimizer_steps + 1
     /\ (TrainBatchStep /\ data_split_musk[batch_idx + 1] = 1) =>
          optimizer_steps' = optimizer_steps + 1
     /\ (TrainBatchStep /\ data_split_musk[batch_idx + 1] # 1) =>
          (optimizer_steps' = optimizer_steps /\ trained' = trained)
     /\ pc \in {"trained", "eval"} =>
          (optimizer_steps' = optimizer_steps /\ trained' = trained)
    ]_vars

\* the evaluation pass of epoch 1 has consumed a batch after a training pass
\* over MaxBatches batches of which one had mask entry 0
C19_Witness ==
  /\ pc = "aborted"
  /\ error = "UnboundLocalError"
  /\ epoch = 1
  /\ len_data = MaxBatches
  /\ CountOf(data_split_musk, 0) = 1
  /\ optimizer_steps = MaxBatches - 1
  /\ Cardinality(trained) = MaxBatches - 1

\* C20: a scheduler object of granularity 'batch' is stepped once for every
\* batch of the training pass, whatever its mask entry, and not at the end of
\* the pass; one of granularity 'epoch' is stepped once per epoch, between
\* the training pass and the evaluation; a float is never stepped; the
\* evaluation pass steps nothing.
C20_SchedulerSteps ==
  [][/\ lr_is_float => scheduler_steps' = scheduler_steps
     /\ (~ lr_is_float /\ lr_shedular_type = "batch") =>
          /\ TrainBatchStep => scheduler_steps' = scheduler_steps + 1
          /\ ~ TrainBatchStep => scheduler_steps' = scheduler_steps
          /\ pc' = "trained" => scheduler_steps' = epoch * len_data
     /\ (~ lr_is_float /\ lr_shedular_type = "epoch") =>
          /\ (pc = "train" /\ pc' = "trained") => scheduler_steps' = scheduler_steps + 1
          /\ ~ (pc = "train" /\ pc' = "trained") => scheduler_steps' = scheduler_steps
          /\ pc' = "trained" => scheduler_steps' = epoch
     /\ pc \in {"trained", "eval"} => scheduler_steps' = scheduler_steps
    ]_vars

\* a per-batch scheduler stepped for all MaxBatches batches of a training
\* pass in which only one batch was trained on
C20_Witness ==
  /\ pc = "eval"
  /\ ~ lr_is_float
  /\ lr_shedular_type = "batch"
  /\ len_data = MaxBatches
  /\ scheduler_steps = MaxBatches
  /\ optimizer_steps = 1

\* C21 as stated: the step that starts an epoch makes a new call of
\* generate_binary_sequence, so every epoch has a mask of its own.
C21_FreshMaskPerEpoch ==
  [][(pc = "loop" /\ pc' = "train") => mask_calls' = mask_calls + 1]_vars

\* C21, amended: train_model calls generate_binary_sequence once per run,
\* before the first epoch; no later step calls it or changes the mask, so
\* every epoch uses the mask of that one call, a sequence of len_data
\* entries of which len_val are 0.
C21_MaskOncePerRun ==
  [][/\ mask_calls' # mask_calls => (pc = "start" /\ mask_calls' = 1)
     /\ data_split_musk' # data_split_musk => pc = "start"
     /\ pc' \in {"train", "trained", "eval"} =>
          /\ mask_calls' = 1
          /\ Len(data_split_musk') = len_data'
          /\ CountOf(data_split_musk', 0) = len_val'
    ]_vars

\* the training pass of the first epoch runs on the mask of the single call
C21_Witness ==
  /\ pc = "train"
  /\ epoch = 1
  /\ mask_calls = 1
  /\ len_data = MaxBatches
  /\ batch_idx = MaxBatches
  /\ CountOf(data_split_musk, 0) = 1

\* C22: in the evaluation pass every batch position goes into exactly one
\* of the two accumulator sets, by its mask entry, and when the pass is left
\* the training set has accumulated len_train batches and the validation
\* set len_val batches, the divisors of the averages.
C22_Accumulation ==
  [][/\ (pc = "eval" /\ remaining' # remaining) =>
          IF data_split_musk[batch_idx + 1] = 1
            THEN total_train_n' = total_train_n + 1 /\ total_val_n' = total_val_n
            ELSE total_val_n' = total_val_n + 1 /\ total_train_n' = total_train_n
     /\ (pc = "eval" /\ pc' # "eval") =>
          /\ total_train_n' = len_train
          /\ total_val_n' = len_val
          /\ total_train_n' + total_val_n' = len_data
    ]_vars

\* the run got past the set-up with at least one epoch and one batch to do
RunWithBatches ==
  /\ pc \notin {"off", "start"}
  /\ error # "ValueError"
  /\ epochs >= 1
  /\ len_data >= 1

\* C24: total_train_f1 and total_val_f1 are never initialised, so a run
\* with epochs >= 1 over a loader with at least one batch fails at the first
\* batch of the evaluation pass of epoch 1 with an uncaught exception: it
\* never gets past that batch, never completes and never writes a checkpoint.
C24_F1Unbound ==
  RunWithBatches =>
    /\ epoch <= 1
    /\ checkpoints = <<>>
    /\ pc \notin {"after_loop", "done"}
    /\ pc = "eval" => (batch_idx = 0 /\ remaining = Samples)
    /\ pc = "aborted" =>
         /\ error = "UnboundLocalError"
         /\ epoch = 1
         /\ batch_idx = 0
         /\ total_train_n + total_val_n = 1

\* a run asked for MaxEpochs epochs over MaxBatches batches has aborted
C24_Witness ==
  /\ pc = "aborted"
  /\ error = "UnboundLocalError"
  /\ epochs = MaxEpochs
  /\ len_data = MaxBatches
  /\ optimizer_steps = MaxBatches
  /\ checkpoints = <<>>

\* C25: a sample that is accumulated into the validation metrics is never
\* used for an optimizer step: the samples trained on and the samples
\* validated on are disjoint throughout the run.
C25_Separation == trained \cap validated = {}

\* C26: whenever the averaging step at the end of the evaluation pass is
\* executed, both divisors len_train and len_val are at least 1.
C26_Divisors ==
  (pc = "eval" /\ remaining = {}) => (len_train >= 1 /\ len_val >= 1)

\* ===================================================================
\* utils/ERA5_dataset_preprocessing: the crop scripts (5.裁切.py, 4.裁切.py)
\* and 5.数据合并/rain数据并入land.py
\* ===================================================================

\* Coordinates are integers, in thousandths of a degree.
\* largest number of grid rows (columns) an archive has beyond the crop box
MaxMargin == 1
\* days that may carry a time step of an archive
MaxDays == 3
\* target_resolution = 0.01
GridStep == 10
\* lat_range = (43.00, 47.40)  # (min, max)
lat_range == <<43000, 47400>>
\* lon_range = (124.00, 128.08)  # (min, max)
lon_range == <<124000, 128080>>
expected_lat_points == 440
expected_lon_points == 408
\* np.arange fills start + i * delta in floating point, so the nodes of an
\* interpolated grid sit on the multiples of 0.01 or a little off them: the
\* distance of every node from its multiple of 0.01
Offsets == {0, 1}

ArchiveKinds == {"pressure", "land", "rain"}
NoFile == <<>>

CeilDiv(a, b) == 0 - ((0 - a) \div b)
MaxOf(a, b) == IF a >= b THEN a ELSE b
MinOf(a, b) == IF a <= b THEN a ELSE b

\* a coordinate axis with regular spacing: node k (from 0) is first + k * step
At(g, k) == g.first + k * g.step
Labels(g) == {At(g, k) : k \in 0 .. g.count - 1}

\* new_lat = np.arange(lat_max, lat_min - target_resolution, -target_resolution)
new_lat(lat_max, lat_min, off) ==
  [first |-> lat_max + off, step |-> 0 - GridStep,
   count |-> CeilDiv(lat_max - (lat_min - GridStep), GridStep)]

\* new_lon = np.arange(lon_min, lon_max + target_resolution, target_resolution)
new_lon(lon_min, lon_max, off) ==
  [first |-> lon_min + off, step |-> GridStep,
   count |-> CeilDiv((lon_max + GridStep) - lon_min, GridStep)]

\* the latitude / longitude axes of the interpolated archives: the source
\* archive reaches `north` and `south` (`west` and `east`) cells beyond the box
LatitudeGrid(north, south, off) ==
  new_lat(lat_range[2] + GridStep * north, lat_range[1] - GridStep * south, off)
LongitudeGrid(west, east, off) ==
  new_lon(lon_range[1] - GridStep * west, lon_range[2] + GridStep * east, off)

RECURSIVE SortedSeq(_)
SortedSeq(S) ==
  IF S = {} THEN <<>>
  ELSE LET m == CHOOSE x \in S : \A y \in S : x <= y
       IN  <<m>> \o SortedSeq(S \ {m})

Elements(s) == {s[i] : i \in DOMAIN s}

\* the time axes of the archives: ascending days
TimeLists == {SortedSeq(S) : S \in (SUBSET (1 .. MaxDays)) \ {{}}}

\* the variables of the interpolated archives
DataVars(a) ==
  IF a = "rain" THEN {{"precipitation_daily"}, {"unknown"}}
  ELSE IF a = "land" THEN {{"skt"}}
  ELSE {{"t"}}

\* ds.sel(axis=slice(start, stop)) on a monotonic axis: the nodes whose label
\* lies between the two labels, both ends included
SelSlice(g, start, stop) ==
  LET s  == IF g.step < 0 THEN 0 - g.step ELSE g.step
      k0 == IF g.step < 0 THEN MaxOf(0, CeilDiv(g.first - start, s))
                          ELSE MaxOf(0, CeilDiv(start - g.first, s))
      k1 == IF g.step < 0 THEN MinOf(g.count - 1, (g.first - stop) \div s)
                          ELSE MinOf(g.count - 1, (stop - g.first) \div s)
  IN  [first |-> At(g, k0), step |-> g.step, count |-> MaxOf(0, k1 - k0 + 1)]

\* cropped_ds = ds.sel(latitude=slice(lat_range[1], lat_range[0]),
\*                     longitude=slice(lon_range[0], lon_range[1]))
Cropped(ds) ==
  [ds EXCEPT !.latitude = SelSlice(@, lat_range[2], lat_range[1]),
             !.longitude = SelSlice(@, lon_range[1], lon_range[2])]

\* actual_lat_points == expected_lat_points and actual_lon_points == expected_lon_points
DimensionsAsExpected(cropped_ds) ==
  /\ cropped_ds.latitude.count = expected_lat_points
  /\ cropped_ds.longitude.count = expected_lon_points

\* precip_vars, searched in ds.data_vars
precip_vars == <<"tp", "precipitation_daily", "precip", "precipitation", "rainfall">>
HasPrecipVar(ds) == \E i \in DOMAIN precip_vars : precip_vars[i] \in ds.data_vars

\* the exception a crop raises before it writes, if any: the rain crop needs
\* a precipitation variable and two nodes per axis (it prints the spacing),
\* every crop prints the min and max of the cropped axes
CropRaises(a, ds, cropped_ds) ==
  IF a = "rain" /\ ~ HasPrecipVar(ds) THEN "ValueError"
  ELSE IF cropped_ds.latitude.count = 0 \/ cropped_ds.longitude.count = 0
    THEN "ValueError"
  ELSE IF a = "rain" /\ (cropped_ds.latitude.count < 2 \/ cropped_ds.longitude.count < 2)
    THEN "IndexError"
  ELSE "none"

CroppedFileIfExpected(cropped_ds, as_expected) ==
  IF as_expected THEN <<cropped_ds>> ELSE NoFile

\* cropped_ds.to_netcdf(output_file) follows the check of the dimensions
\* without depending on it
CroppedFile(cropped_ds, as_expected) == <<cropped_ds>>

Union1d(x, y) == SortedSeq(Elements(x) \cup Elements(y))

\* np.intersect1d: the sorted common values
intersect1d(x, y) == SortedSeq(Elements(x) \cap Elements(y))

\* ds_rain.rename({'precipitation_daily': 'precipitation'})
RenamePrecipitation(ds) ==
  IF "precipitation_daily" \in ds.data_vars
    THEN [ds EXCEPT !.data_vars = (@ \ {"precipitation_daily"}) \cup {"precipitation"}]
    ELSE ds

\* xr.merge([ds_land, ds_rain]): the axes are joined (outer join)
xr_merge(l, r) ==
  [latitude |-> Labels(l.latitude) \cup Labels(r.latitude),
   longitude |-> Labels(l.longitude) \cup Labels(r.longitude),
   time |-> SortedSeq(Elements(l.time) \cup Elements(r.time)),
   data_vars |-> l.data_vars \cup r.data_vars]

\* len(ds_land.latitude) != len(ds_rain.latitude) or
\* len(ds_land.longitude) != len(ds_rain.longitude)
SpatialMismatch(ds_land, ds_rain) ==
  \/ ds_land.latitude.count # ds_rain.latitude.count
  \/ ds_land.longitude.count # ds_rain.longitude.count

\* merge_precipitation_to_land: the file it writes, NoFile when it returns None
merge_precipitation_to_land(ds_land, ds_rain) ==
  IF SpatialMismatch(ds_land, ds_rain) THEN NoFile
  ELSE LET differ == Len(ds_land.time) # Len(ds_rain.time)
           common_times == intersect1d(ds_land.time, ds_rain.time)
       IN  IF differ /\ Len(common_times) = 0 THEN NoFile
           ELSE LET l == IF differ THEN [ds_land EXCEPT !.time = common_times]
                                   ELSE ds_land
                    r == IF differ THEN [ds_rain EXCEPT !.time = common_times]
                                   ELSE ds_rain
                IN  <<xr_merge(l, RenamePrecipitation(r))>>

\* ---- a crop script run on one interpolated archive
InitCrop ==
  /\ OffAggregation
  /\ OffDownload
  /\ OffKriging
  /\ OffSplit
  /\ OffDataset
  /\ OffMetrics
  /\ OffLoss
  /\ OffTrain
  /\ \E a \in ArchiveKinds, north, south, west, east \in 0 .. MaxMargin,
        lat_off, lon_off \in Offsets, t \in TimeLists :
       \E dv \in DataVars(a) :
         interp = [k \in ArchiveKinds |->
                     IF k = a
                       THEN <<[latitude |-> LatitudeGrid(north, south, lat_off),
                               longitude |-> LongitudeGrid(west, east, lon_off),
                               time |-> t, data_vars |-> dv]>>
                       ELSE NoFile]
  /\ cropped = [k \in ArchiveKinds |-> NoFile]
  /\ crop_result = [k \in ArchiveKinds |-> "none"]
  /\ crop_warned = [k \in ArchiveKinds |-> FALSE]
  /\ merged = NoFile
  /\ merge_result = "none"

\* crop_netcdf_file / crop_land_data / crop_precipitation_data, run by the
\* script's main on the interpolated archive of kind a
Crop(a) ==
  /\ interp[a] # NoFile
  /\ crop_result[a] = "none"
  /\ LET ds == interp[a][1]
         cropped_ds == Cropped(ds)
         raised == CropRaises(a, ds, cropped_ds)
     IN  IF raised # "none"
           THEN /\ crop_result' = [crop_result EXCEPT ![a] = raised]
                /\ UNCHANGED <<cropped, crop_warned>>
           ELSE /\ crop_warned' =
                     [crop_warned EXCEPT ![a] = ~ DimensionsAsExpected(cropped_ds)]
                /\ cropped' =
                     [cropped EXCEPT ![a] =
                        CroppedFile(cropped_ds, DimensionsAsExpected(cropped_ds))]
                /\ crop_result' = [crop_result EXCEPT ![a] = "returned"]
  /\ UNCHANGED <<interp, merged, merge_result>>
  /\ UNCHANGED not_assembly

NextCrop == \E a \in ArchiveKinds : Crop(a)

SpecCrop == InitCrop /\ [][NextCrop]_vars

\* ---- the three crops followed by the merge of rain into land
InitAssembly ==
  /\ OffAggregation
  /\ OffDownload
  /\ OffKriging
  /\ OffSplit
  /\ OffDataset
  /\ OffMetrics
  /\ OffLoss
  /\ OffTrain
  /\ \E lat_off, lon_off \in [ArchiveKinds -> Offsets],
        land_time, rain_time \in TimeLists, rain_vars \in DataVars("rain") :
       interp = [k \in ArchiveKinds |->
                   <<[latitude |-> LatitudeGrid(MaxMargin, MaxMargin, lat_off[k]),
                      longitude |-> LongitudeGrid(MaxMargin, MaxMargin, lon_off[k]),
                      time |-> IF k = "land" THEN land_time
                               ELSE IF k = "rain" THEN rain_time
                               ELSE SortedSeq(1 .. MaxDays),
                      data_vars |-> IF k = "rain" THEN rain_vars
                                    ELSE CHOOSE dv \in DataVars(k) : TRUE]>>]
  /\ cropped = [k \in ArchiveKinds |-> NoFile]
  /\ crop_result = [k \in ArchiveKinds |-> "none"]
  /\ crop_warned = [k \in ArchiveKinds |-> FALSE]
  /\ merged = NoFile
  /\ merge_result = "none"

\* the main of rain数据并入land.py: both cropped files must exist
Merge ==
  /\ merge_result = "none"
  /\ cropped["land"] # NoFile
  /\ cropped["rain"] # NoFile
  /\ merged' = merge_precipitation_to_land(cropped["land"][1], cropped["rain"][1])
  /\ merge_result' = IF merged' = NoFile THEN "None" ELSE "merged"
  /\ UNCHANGED <<interp, cropped, crop_result, crop_warned>>
  /\ UNCHANGED not_assembly

NextAssembly ==
  \/ Crop("pressure")
  \/ Crop("land")
  \/ Crop("rain")
  \/ Merge

SpecAssembly == InitAssembly /\ [][NextAssembly]_vars

\* ---- claims about the crop scripts and the merge

\* the axis has a node at or beyond each end of [lo, hi]
AxisCovers(g, lo, hi) ==
  LET last == At(g, g.count - 1)
  IN  /\ MinOf(g.first, last) <= lo
      /\ MaxOf(g.first, last) >= hi

CoversBox(ds) ==
  /\ AxisCovers(ds.latitude, lat_range[1], lat_range[2])
  /\ AxisCovers(ds.longitude, lon_range[1], lon_range[2])

\* C12: a crop of an archive whose 0.01-degree grid covers the box
\* [43.00, 47.40]N x [124.00, 128.08]E yields exactly 440 latitude points
\* and 408 longitude points.
C12_CropPoints ==
  \A a \in ArchiveKinds :
    (crop_result[a] = "returned" /\ CoversBox(interp[a][1])) =>
      /\ cropped[a][1].latitude.count = 440
      /\ cropped[a][1].longitude.count = 408

\* C13: a crop that returns has written its output, the whole cropped
\* archive, whether or not its grid is 440 x 408 (the mismatch is only
\* warned about); a merge of cropped land and rain archives that differ in
\* latitude count or longitude count writes nothing and returns None.
C13_AdvisoryAndBlocking ==
  /\ \A a \in ArchiveKinds :
       crop_result[a] = "returned" =>
         /\ cropped[a] = <<Cropped(interp[a][1])>>
         /\ crop_warned[a] = ~ DimensionsAsExpected(cropped[a][1])
  /\ \A a \in ArchiveKinds : crop_result[a] # "returned" => cropped[a] = NoFile
  /\ (merge_result \in {"merged", "None"}
        /\ SpatialMismatch(cropped["land"][1], cropped["rain"][1])) =>
       (merged = NoFile /\ merge_result = "None")

\* the land crop warned about a 441-row grid and wrote it all the same, and
\* the merge then refused the 441-row land archive against the 440-row rain
C13_Witness ==
  /\ crop_warned["land"]
  /\ cropped["land"] # NoFile
  /\ cropped["land"][1].latitude.count = 441
  /\ cropped["rain"] # NoFile
  /\ cropped["rain"][1].latitude.count = 440
  /\ merge_result = "None"
  /\ merged = NoFile

\* the time axes of the two archives the merge read
LandTimes == Elements(cropped["land"][1].time)
RainTimes == Elements(cropped["rain"][1].time)

\* C18: when the land and precipitation archives of a merge have different
\* numbers of time steps, the merged archive has exactly the timestamps
\* present in both; if there is none, nothing is written and None returned.
C18_CommonTimes ==
  (/\ merge_result \in {"merged", "None"}
   /\ ~ SpatialMismatch(cropped["land"][1], cropped["rain"][1])
   /\ Cardinality(LandTimes) # Cardinality(RainTimes)) =>
     IF LandTimes \cap RainTimes = {}
       THEN merged = NoFile /\ merge_result = "None"
       ELSE /\ merge_result = "merged"
            /\ merged # NoFile
            /\ merged[1].time = SortedSeq(LandTimes \cap RainTimes)

\* three land days and two rain days, one of them in common
C18_Witness ==
  /\ merge_result = "merged"
  /\ merged # NoFile
  /\ Cardinality(LandTimes) = 3
  /\ Cardinality(RainTimes) = 2
  /\ Len(merged[1].time) = 2

\* one land day and two other rain days: nothing in common
C18_WitnessDisjoint ==
  /\ merge_result = "None"
  /\ ~ SpatialMismatch(cropped["land"][1], cropped["rain"][1])
  /\ Cardinality(LandTimes) = 1
  /\ Cardinality(RainTimes) = 2
  /\ LandTimes \cap RainTimes = {}

\* C30: whenever the merge writes an output archive, every time step of that
\* archive is present in both the land input and the precipitation input,
\* also when both inputs have the same number of time steps.
C30_TimesInBoth ==
  (merge_result = "merged" /\ merged # NoFile) =>
    Elements(merged[1].time) \subseteq (LandTimes \cap RainTimes)

\* ===================================================================
\* utils/ERA5_dataset_preprocessing/4.处理rain数据/3.克里金插值.py
\* ===================================================================

\* largest number of time steps of the input archive
MaxTimeSteps == 3
\* largest number of non-NaN source points of a time step
MaxValidPoints == 6
\* `if len(values_valid) < 5`
MinValidPoints == 5

\* auto_detect_variable: the names searched in ds.data_vars
kr_precip_vars == <<"precipitation_daily", "tp", "precip", "precipitation", "rainfall", "pr">>
auto_detect_variable(data_vars) ==
  \E i \in DOMAIN kr_precip_vars : kr_precip_vars[i] \in data_vars

InitKriging ==
  /\ OffAggregation
  /\ OffDownload
  /\ OffSplit
  /\ OffDataset
  /\ OffMetrics
  /\ OffLoss
  /\ OffTrain
  /\ OffAssembly
  /\ kr_data_vars \in {{"tp"}, {"unknown"}}
  /\ kr_time_dim \in BOOLEAN
  /\ \E n \in 1 .. MaxTimeSteps :
       /\ ~ kr_time_dim => n = 1
       /\ values_valid \in [1 .. n -> 0 .. MaxValidPoints]
  /\ n_time = 0
  /\ kr_t = 0
  /\ interpolated_data = <<>>
  /\ kr_assignments = <<>>
  /\ kr_attempts = <<>>
  /\ kr_output = NoFile
  /\ kr_pc = "call"

kr_frame == <<kr_data_vars, kr_time_dim, values_valid>>

\* lines 29-55: open, detect the variable, build the grid, allocate the result
KrigingOpen ==
  /\ kr_pc = "call"
  /\ IF ~ auto_detect_variable(kr_data_vars)
       THEN /\ kr_pc' = "ValueError"
            /\ UNCHANGED <<n_time, interpolated_data, kr_assignments, kr_attempts>>
       ELSE /\ n_time' = IF kr_time_dim THEN Len(values_valid) ELSE 1
            /\ interpolated_data' = [i \in 1 .. n_time' |-> "zeros"]
            /\ kr_assignments' = [i \in 1 .. n_time' |-> 0]
            /\ kr_attempts' = [i \in 1 .. n_time' |-> <<>>]
            /\ kr_pc' = "loop"
  /\ UNCHANGED <<kr_t, kr_output, kr_frame>>
  /\ UNCHANGED not_kriging

\* interpolated_data[t] = v
AssignSlice(v) ==
  /\ interpolated_data' = [interpolated_data EXCEPT ![kr_t + 1] = v]
  /\ kr_assignments' = [kr_assignments EXCEPT ![kr_t + 1] = @ + 1]

Attempt(method, ok) ==
  kr_attempts' = [kr_attempts EXCEPT ![kr_t + 1] = Append(@, [method |-> method, ok |-> ok])]

TooFewPointsNever(n) == FALSE

\* len(values_valid) < 5
TooFewPoints(n) == n < MinValidPoints

\* lines 58-81: the head of one iteration, up to the test of the valid points
LoopHead ==
  /\ kr_pc = "loop"
  /\ kr_t < n_time
  /\ IF TooFewPoints(values_valid[kr_t + 1])
       THEN /\ AssignSlice("nan")
            /\ kr_t' = kr_t + 1
            /\ UNCHANGED <<kr_pc, kr_attempts>>
       ELSE /\ kr_pc' = "kriging"
            /\ UNCHANGED <<kr_t, interpolated_data, kr_assignments, kr_attempts>>
  /\ UNCHANGED <<n_time, kr_output, kr_frame>>
  /\ UNCHANGED not_kriging

\* lines 83-101: OrdinaryKriging and ok.execute, which may raise
TryKriging ==
  /\ kr_pc = "kriging"
  /\ \E ok \in BOOLEAN :
       /\ Attempt("kriging", ok)
       /\ IF ok
            THEN /\ AssignSlice("kriging")
                 /\ kr_t' = kr_t + 1
                 /\ kr_pc' = "loop"
            ELSE /\ kr_pc' = "fallback"
                 /\ UNCHANGED <<kr_t, interpolated_data, kr_assignments>>
  /\ UNCHANGED <<n_time, kr_output, kr_frame>>
  /\ UNCHANGED not_kriging

\* lines 103-111: griddata(method='linear'), which may raise
TryFallback ==
  /\ kr_pc = "fallback"
  /\ \E ok \in BOOLEAN :
       /\ Attempt("linear", ok)
       /\ AssignSlice(IF ok THEN "linear" ELSE "nan")
  /\ kr_t' = kr_t + 1
  /\ kr_pc' = "loop"
  /\ UNCHANGED <<n_time, kr_output, kr_frame>>
  /\ UNCHANGED not_kriging

\* dims of the output variable: with the time axis only `if n_time > 1`
OutputDims == IF n_time > 1 THEN 3 ELSE 2

\* lines 113-161: xr.Dataset({var_name: (dims, interpolated_data)}), which
\* needs as many dims as the 3-d array has axes, then to_netcdf
BuildAndWrite ==
  /\ kr_pc = "loop"
  /\ kr_t = n_time
  /\ IF OutputDims # 3
       THEN /\ kr_pc' = "ValueError"
            /\ UNCHANGED kr_output
       ELSE /\ kr_output' = <<interpolated_data>>
            /\ kr_pc' = "returned"
  /\ UNCHANGED <<n_time, kr_t, interpolated_data, kr_assignments, kr_attempts, kr_frame>>
  /\ UNCHANGED not_kriging

NextKriging ==
  \/ KrigingOpen
  \/ LoopHead
  \/ TryKriging
  \/ TryFallback
  \/ BuildAndWrite

SpecKriging == InitKriging /\ [][NextKriging]_vars

\* ---- claims about kriging_interpolate_precipitation

\* C14: a time step with fewer than 5 non-missing source points gets an
\* all-missing output slice, no interpolation method is attempted for it,
\* no error is raised and the loop goes on to the next time step.
C14_TooFewPoints ==
  [][(/\ kr_pc = "loop"
      /\ kr_t < n_time
      /\ values_valid[kr_t + 1] < 5) =>
       (/\ interpolated_data' = [interpolated_data EXCEPT ![kr_t + 1] = "nan"]
        /\ kr_attempts' = kr_attempts
        /\ kr_attempts[kr_t + 1] = <<>>
        /\ kr_pc' = "loop"
        /\ kr_t' = kr_t + 1)]_vars

\* a step with 4 valid points was skipped and the next one was kriged
C14_Witness ==
  /\ kr_pc = "loop"
  /\ kr_t = 2
  /\ values_valid[1] = 4
  /\ interpolated_data[1] = "nan"
  /\ kr_attempts[1] = <<>>
  /\ interpolated_data[2] = "kriging"

Tried(method, ok) == [method |-> method, ok |-> ok]

\* C15: per time step kriging is tried first, the linear fallback only after
\* kriging failed, the all-missing slice only after the fallback failed too;
\* every time step gets exactly one output slice and the run, once in the
\* loop, ends with the write of the output archive, never with an exception.
C15_Strategies ==
  (kr_pc \notin {"off", "call"} /\ auto_detect_variable(kr_data_vars)) =>
    /\ \A i \in 1 .. kr_t :
         \/ /\ values_valid[i] < 5
            /\ kr_attempts[i] = <<>>
            /\ interpolated_data[i] = "nan"
         \/ /\ kr_attempts[i] = <<Tried("kriging", TRUE)>>
            /\ interpolated_data[i] = "kriging"
         \/ /\ kr_attempts[i] = <<Tried("kriging", FALSE), Tried("linear", TRUE)>>
            /\ interpolated_data[i] = "linear"
         \/ /\ kr_attempts[i] = <<Tried("kriging", FALSE), Tried("linear", FALSE)>>
            /\ interpolated_data[i] = "nan"
    /\ \A i \in 1 .. kr_t : kr_assignments[i] = 1
    /\ kr_pc = "returned" =>
         (kr_t = n_time /\ n_time = Len(values_valid) /\ kr_output = <<interpolated_data>>)
    /\ kr_pc # "ValueError"

\* ===================================================================
\* utils/ERA5_dataset_preprocessing/0.下载数据/2.下载land数据.py
\* ===================================================================

\* largest number of months of a requested range
MaxRequests == 3
\* the years a range may start or end in (the script asks for 2024-03 .. 2025-02)
Years == {2024, 2025}
Months == 1 .. 12

\* the while loop of generate_monthly_requests
RECURSIVE MonthlyLoop(_, _, _, _, _)
MonthlyLoop(requests, current_year, current_month, end_year, end_month) ==
  IF current_year < end_year \/ (current_year = end_year /\ current_month <= end_month)
    THEN LET appended == Append(requests, <<current_year, current_month>>)
         IN  IF current_month + 1 > 12
               THEN MonthlyLoop(appended, current_year + 1, 1, end_year, end_month)
               ELSE MonthlyLoop(appended, current_year, current_month + 1,
                                end_year, end_month)
    ELSE requests

generate_monthly_requests_open(start_year, start_month, end_year, end_month) ==
  MonthlyLoop(<<>>, start_year, start_month, end_year, end_month - 1)

generate_monthly_requests(start_year, start_month, end_year, end_month) ==
  MonthlyLoop(<<>>, start_year, start_month, end_year, end_month)

InitDownload ==
  /\ OffAggregation
  /\ OffSplit
  /\ OffDataset
  /\ OffMetrics
  /\ OffLoss
  /\ OffTrain
  /\ OffAssembly
  /\ OffKriging
  /\ \E sy, ey \in Years, sm, em \in Months :
       /\ Len(generate_monthly_requests(sy, sm, ey, em)) <= MaxRequests
       /\ dl_range = <<sy, sm, ey, em>>
  /\ monthly_requests = <<>>
  /\ threads = <<>>
  /\ thread_state = <<>>
  /\ idm_queue = {}
  /\ dl_log = {}
  /\ dl_joined = 0
  /\ dl_main = "start"

\* lines 72-76: the list of months and the empty thread list
MainStart ==
  /\ dl_main = "start"
  /\ monthly_requests' =
       generate_monthly_requests(dl_range[1], dl_range[2], dl_range[3], dl_range[4])
  /\ dl_main' = "launch"
  /\ UNCHANGED <<dl_range, threads, thread_state, idm_queue, dl_log, dl_joined>>
  /\ UNCHANGED not_download

\* lines 77-84: one iteration of the launch loop, or its end
LaunchLoop ==
  /\ dl_main = "launch"
  /\ IF Len(threads) < Len(monthly_requests)
       THEN /\ threads' = Append(threads, monthly_requests[Len(threads) + 1])
            /\ thread_state' = Append(thread_state, "started")
            /\ UNCHANGED dl_main
       ELSE /\ dl_main' = "join"
            /\ UNCHANGED <<threads, thread_state>>
  /\ UNCHANGED <<dl_range, monthly_requests, idm_queue, dl_log, dl_joined>>
  /\ UNCHANGED not_download

AfterFailureUncaught(logged, args) == logged

\* except Exception as e: print(...)
AfterFailure(logged, args) == logged \cup {args}

\* lines 13-40 in thread i: the client, the request and c.retrieve, which may raise
Retrieve(i) ==
  /\ i \in DOMAIN threads
  /\ thread_state[i] = "started"
  /\ \E ok \in BOOLEAN :
       IF ok THEN /\ thread_state' = [thread_state EXCEPT ![i] = "retrieved"]
                  /\ UNCHANGED dl_log
             ELSE /\ thread_state' = [thread_state EXCEPT ![i] = "logged"]
                  /\ dl_log' = AfterFailure(dl_log, threads[i])
  /\ UNCHANGED <<dl_range, monthly_requests, threads, idm_queue, dl_joined, dl_main>>
  /\ UNCHANGED not_download

\* lines 42-50 in thread i: idmDownloader, which may raise
HandOff(i) ==
  /\ i \in DOMAIN threads
  /\ thread_state[i] = "retrieved"
  /\ \E ok \in BOOLEAN :
       IF ok THEN /\ thread_state' = [thread_state EXCEPT ![i] = "handed"]
                  /\ idm_queue' = idm_queue \cup {threads[i]}
                  /\ UNCHANGED dl_log
             ELSE /\ thread_state' = [thread_state EXCEPT ![i] = "logged"]
                  /\ dl_log' = AfterFailure(dl_log, threads[i])
                  /\ UNCHANGED idm_queue
  /\ UNCHANGED <<dl_range, monthly_requests, threads, dl_joined, dl_main>>
  /\ UNCHANGED not_download

ThreadFinished(i) == thread_state[i] \in {"handed", "logged"}

\* lines 86-87: thread.join() returns once the thread has finished; after the
\* last join the script ends
JoinLoop ==
  /\ dl_main = "join"
  /\ IF dl_joined < Len(threads)
       THEN /\ ThreadFinished(dl_joined + 1)
            /\ dl_joined' = dl_joined + 1
            /\ UNCHANGED dl_main
       ELSE /\ dl_main' = "finished"
            /\ UNCHANGED dl_joined
  /\ UNCHANGED <<dl_range, monthly_requests, threads, thread_state, idm_queue, dl_log>>
  /\ UNCHANGED not_download

NextDownload ==
  \/ MainStart
  \/ LaunchLoop
  \/ \E i \in 1 .. MaxRequests : Retrieve(i)
  \/ \E i \in 1 .. MaxRequests : HandOff(i)
  \/ JoinLoop

SpecDownload == InitDownload /\ [][NextDownload]_vars

\* the script started on any range of Years x Months, the start after the
\* end included; only the list of months is built
InitMonthly ==
  /\ OffAggregation
  /\ OffSplit
  /\ OffDataset
  /\ OffMetrics
  /\ OffLoss
  /\ OffTrain
  /\ OffAssembly
  /\ OffKriging
  /\ dl_range \in Years \X Months \X Years \X Months
  /\ monthly_requests = <<>>
  /\ threads = <<>>
  /\ thread_state = <<>>
  /\ idm_queue = {}
  /\ dl_log = {}
  /\ dl_joined = 0
  /\ dl_main = "start"

NextMonthly == MainStart

SpecMonthly == InitMonthly /\ [][NextMonthly]_vars

\* ---- claims about the land downloader

\* C16: every month of the range gets exactly one thread; a failed request
\* or hand-off is logged in its own thread and blocks neither the launch
\* loop nor any other thread; a thread ends with its file handed to the
\* download manager or with a logged error, never both; the script
\* finishes only after every thread has finished.
C16_Threads ==
  dl_main \in {"launch", "join", "finished"} =>
    /\ Len(threads) <= Len(monthly_requests)
    /\ Len(thread_state) = Len(threads)
    /\ \A i \in DOMAIN threads : threads[i] = monthly_requests[i]
    /\ \A i, j \in DOMAIN threads : threads[i] = threads[j] => i = j
    /\ dl_main \in {"join", "finished"} => Len(threads) = Len(monthly_requests)
    /\ \A i \in DOMAIN threads :
         /\ thread_state[i] = "handed" <=> threads[i] \in idm_queue
         /\ thread_state[i] = "logged" <=> threads[i] \in dl_log
         /\ thread_state[i] = "started" => ENABLED Retrieve(i)
         /\ thread_state[i] = "retrieved" => ENABLED HandOff(i)
    /\ dl_main = "launch" => ENABLED LaunchLoop
    /\ dl_main = "finished" => \A i \in DOMAIN threads : ThreadFinished(i)

\* months counted from year 0: MonthIndex(2024, 3) is the 24290th month
MonthIndex(year, month) == 12 * year + (month - 1)

\* C23: generate_monthly_requests returns every (year, month) pair from the
\* start to the end inclusive, once each, in chronological order, the year
\* rolling over after month 12, and the empty list when the start is after
\* the end; (2024, 3, 2025, 2) yields 12 pairs.
C23_MonthlyRequests ==
  dl_main = "launch" =>
    LET first == MonthIndex(dl_range[1], dl_range[2])
        last  == MonthIndex(dl_range[3], dl_range[4])
        n     == IF last >= first THEN last - first + 1 ELSE 0
    IN  /\ Len(monthly_requests) = n
        /\ \A i \in 1 .. n :
             monthly_requests[i] =
               <<(first + i - 1) \div 12, ((first + i - 1) % 12) + 1>>
        /\ \A i, j \in 1 .. n :
             i < j => MonthIndex(monthly_requests[i][1], monthly_requests[i][2])
                        < MonthIndex(monthly_requests[j][1], monthly_requests[j][2])
        /\ dl_range = <<2024, 3, 2025, 2>> => Len(monthly_requests) = 12

\* the list of March 2024 to February 2025 was built: 12 pairs, the year
\* rolling over after the tenth
C23_Witness ==
  /\ dl_main = "launch"
  /\ dl_range = <<2024, 3, 2025, 2>>
  /\ Len(monthly_requests) = 12
  /\ monthly_requests[1] = <<2024, 3>>
  /\ monthly_requests[10] = <<2024, 12>>
  /\ monthly_requests[11] = <<2025, 1>>
  /\ monthly_requests[12] = <<2025, 2>>

\* the list of a range whose start is after its end was built
C23_WitnessEmpty ==
  /\ dl_main = "launch"
  /\ dl_range = <<2025, 2, 2024, 3>>
  /\ monthly_requests = <<>>

\* the script finished a range of MaxRequests months in which the first
\* request failed, the second hand-off failed and the third file was staged
C16_Witness ==
  /\ dl_main = "finished"
  /\ Len(threads) = MaxRequests
  /\ thread_state = <<"logged", "logged", "handed">>
  /\ Cardinality(dl_log) = 2
  /\ Cardinality(idm_queue) = 1

\* ===================================================================
\* utils/ERA5_dataset_preprocessing/4.处理rain数据/1.按日加和.py
\* ===================================================================

\* largest number of runs of same-day samples in the hourly archive
MaxBlocks == 3
\* calendar dates the samples may fall on
MaxDates == 2
\* `if mask.sum() == 24`
HoursPerDay == 24
\* lengths of a run of samples of one date
BlockLengths == {12, HoursPerDay, HoursPerDay + 1}
\* values of an hourly sample
SampleValues == {1, 2}

\* the hourly archive is a sequence of runs [date, count, value]: `count`
\* consecutive samples of `date`, each of value `value`
Blocks == [date : 1 .. MaxDates, count : BlockLengths, value : SampleValues]

RECURSIVE TimesOf(_)
TimesOf(blocks) ==
  IF blocks = <<>> THEN <<>>
  ELSE [k \in 1 .. Head(blocks).count |-> Head(blocks).date] \o TimesOf(Tail(blocks))

RECURSIVE ValuesOf(_)
ValuesOf(blocks) ==
  IF blocks = <<>> THEN <<>>
  ELSE [k \in 1 .. Head(blocks).count |-> Head(blocks).value] \o ValuesOf(Tail(blocks))

InitAggregation ==
  /\ OffSplit
  /\ OffDataset
  /\ OffMetrics
  /\ OffLoss
  /\ OffTrain
  /\ OffAssembly
  /\ OffKriging
  /\ OffDownload
  /\ \E n \in 1 .. MaxBlocks : \E blocks \in [1 .. n -> Blocks] :
       /\ times = TimesOf(blocks)
       /\ tp = ValuesOf(blocks)
  /\ unique_dates = <<>>
  /\ agg_i = 0
  /\ daily_precip = <<>>
  /\ dates_list = <<>>
  /\ daily_ds = NoFile
  /\ agg_pc = "call"

agg_input == <<times, tp>>

\* lines 165-177: the sorted unique dates and the two empty lists
AggregationOpen ==
  /\ agg_pc = "call"
  /\ unique_dates' = SortedSeq(Elements(times))
  /\ agg_pc' = IF unique_dates' = <<>> THEN "ValueError" ELSE "loop"
  /\ UNCHANGED <<agg_i, daily_precip, dates_list, daily_ds, agg_input>>
  /\ UNCHANGED not_aggregation

\* mask = times.date == date
DateMask(date) == [k \in DOMAIN times |-> times[k] = date]

\* mask.sum()
MaskSum(mask) == Cardinality({k \in DOMAIN mask : mask[k]})

\* ds['tp'].isel(valid_time=mask).sum(dim='valid_time')
RECURSIVE MaskedSum(_, _, _)
MaskedSum(values, mask, k) ==
  IF k > Len(values) THEN 0
  ELSE (IF mask[k] THEN values[k] ELSE 0) + MaskedSum(values, mask, k + 1)

\* if mask.sum() == 24
CompleteDay(mask) == MaskSum(mask) = HoursPerDay

\* lines 179-186: one iteration of the loop over unique_dates
DayStep ==
  /\ agg_pc = "loop"
  /\ agg_i < Len(unique_dates)
  /\ LET date == unique_dates[agg_i + 1]
         mask == DateMask(date)
     IN  IF CompleteDay(mask)
           THEN /\ daily_precip' = Append(daily_precip, MaskedSum(tp, mask, 1))
                /\ dates_list' = Append(dates_list, date)
           ELSE UNCHANGED <<daily_precip, dates_list>>
  /\ agg_i' = agg_i + 1
  /\ UNCHANGED <<unique_dates, daily_ds, agg_pc, agg_input>>
  /\ UNCHANGED not_aggregation

\* lines 188-202: xr.concat, which raises on an empty list, and the dataset
ConcatAndReturn ==
  /\ agg_pc = "loop"
  /\ agg_i = Len(unique_dates)
  /\ IF daily_precip = <<>>
       THEN /\ agg_pc' = "ValueError"
            /\ UNCHANGED daily_ds
       ELSE /\ daily_ds' = <<[time |-> dates_list, precipitation_daily |-> daily_precip]>>
            /\ agg_pc' = "returned"
  /\ UNCHANGED <<unique_dates, agg_i, daily_precip, dates_list, agg_input>>
  /\ UNCHANGED not_aggregation

NextAggregation ==
  \/ AggregationOpen
  \/ DayStep
  \/ ConcatAndReturn

SpecAggregation == InitAggregation /\ [][NextAggregation]_vars

\* ---- claims about manual_daily_aggregation

SamplesOn(date) == {k \in DOMAIN times : times[k] = date}

RECURSIVE SumOfSamples(_)
SumOfSamples(S) ==
  IF S = {} THEN 0
  ELSE LET k == CHOOSE j \in S : TRUE IN tp[k] + SumOfSamples(S \ {k})

DaysWith24 == {d \in Elements(times) : Cardinality(SamplesOn(d)) = 24}

\* C17: the output has a day if and only if that day has exactly 24 hourly
\* samples in the input, its value is the sum of those 24 samples, the days
\* are in ascending order, and the other days are dropped without an error.
C17_CompleteDays ==
  agg_pc \notin {"off", "call"} =>
    /\ agg_pc # "ValueError"
    /\ agg_pc = "returned" =>
         /\ daily_ds # NoFile
         /\ daily_ds[1].time = SortedSeq(DaysWith24)
         /\ Len(daily_ds[1].precipitation_daily) = Len(daily_ds[1].time)
         /\ \A i \in DOMAIN daily_ds[1].time :
              daily_ds[1].precipitation_daily[i] = SumOfSamples(SamplesOn(daily_ds[1].time[i]))

====
